---- MODULE Spec2Model ----
(***************************************************************************)
(* AlgoRhythms client: the job-progress stream reader of LoadingPlaylist,  *)
(* the PlaylistGenerationProvider context, the PKCE session held by        *)
(* AuthProvider / LoginCallback, the verifier generator and the scoring    *)
(* of GreedyAlgorithmVisualization.                                        *)
(*                                                                         *)
(* Six specifications share one set of variables:                          *)
(*   SpecWire  the read loop of LoadingPlaylist.processStream, at the      *)
(*             level of the bytes delivered by reader.read()               *)
(*   SpecGen   PlaylistGenerationProvider: startGeneration and             *)
(*             handleStreamUpdate, at the level of decoded events, for a   *)
(*             logged-in visitor moving between the form and               *)
(*             LoadingPlaylist                                             *)
(*   SpecAuth  the whole application behind the router: AuthProvider,      *)
(*             the PKCE redirect / code exchange, LoginCallback, the       *)
(*             session history, submitForm, the read loop of               *)
(*             LoadingPlaylist and the generation context                  *)
(*   SpecFold  the two event handlers applied to one well-formed run,      *)
(*             event by event                                              *)
(*   SpecVerifier  generateCodeVerifier, one random byte at a time         *)
(*   SpecScore generateSongs and the cutoff slider of the visualization    *)
(***************************************************************************)
EXTENDS Integers, Sequences, FiniteSets, TLC

\* ------------------------------------------------------------------------
\* Bounds
\* ------------------------------------------------------------------------
\* frames the server writes on one stream (SpecWire)
MaxFrames == 3
\* events the server emits over all runs (SpecGen)
MaxEvents == 2
\* invocations of startGeneration (SpecGen)
MaxRuns == 2
\* seconds the clock advances (SpecAuth)
MaxTime == 1
\* page loads of the application (SpecAuth)
MaxLoads == 2
\* page loads of the application (SpecLogin)
MaxLoginLoads == 3
\* tasks one `initial` event declares (SpecFold)
MaxTasks == 3
\* read loops left running by LoadingPlaylist instances taken off the page
\* that are kept count of
MaxOrphans == 1
\* entries of the session history followed on either side of the current
\* one (older ones are forgotten)
MaxHistory == 1
\* login exchanges of LoginCallback instances taken off the page that are
\* followed to their end
MaxOrphanLogins == 1
\* welcome timers pending at once that are followed to their firing
MaxTimers == 1
\* redirectToAuthCodeFlow calls waiting at their await at once
MaxPendingLogins == 2
\* steps the visitor takes aside of the login and generation flow: presses
\* of the back and forward buttons, logOut and guestLogin calls
MaxDetours == 2
\* characters of a verifier (SpecVerifier; the source asks for 128)
MaxVerifierLen == 2
\* candidates of a pool handed to the scoring engine (SpecEngine)
MaxPool == 3
\* the playlist length requested of the scoring engine (SpecEngine)
MaxLength == 4

\* ------------------------------------------------------------------------
\* Values
\* ------------------------------------------------------------------------
\* a property that is not set on a JavaScript object (undefined)
Absent == "undefined"

\* the durations and the payloads an update may carry
Durations == {Absent, "5s"}
Payloads == {Absent, "d1"}

\* ------------------------------------------------------------------------
\* Task and TaskMap (types.ts Task, TaskMap).  A TaskMap is a JavaScript
\* object; it is kept as the sequence of its entries in enumeration order.
\* ------------------------------------------------------------------------
Task(id, label, description, status, duration, additionalData) ==
    [id |-> id, label |-> label, description |-> description,
     status |-> status, duration |-> duration, additionalData |-> additionalData]

\* the task object of prev[task_id] when no such property exists: spreading
\* undefined copies nothing
NoTask == Task(Absent, Absent, Absent, Absent, Absent, Absent)

\* a declaration of the `initial` event: {id, label, description, status}
Declared(id) == Task(id, "label", "description", "pending", Absent, Absent)

HasKey(obj, k) == \E i \in 1..Len(obj) : obj[i].key = k

\* obj[k]
Get(obj, k) ==
    IF HasKey(obj, k)
    THEN obj[CHOOSE i \in 1..Len(obj) : obj[i].key = k].val
    ELSE NoTask

\* the number a property key spells when it is an array index: a canonical
\* numeric string (decimal digits, no leading zero but in "0" itself) of a
\* value up to 2^32 - 2.  The value v is given as <<v \div 100000,
\* v % 100000>>, any other key gives <<>>
ArrayIndex(k) ==
    LET chars == <<"0", "1", "2", "3", "4", "5", "6", "7", "8", "9">>
        At(i) == SubSeq(k, i, i)
        Value(c) == (CHOOSE d \in 1..10 : chars[d] = c) - 1
        RECURSIVE Number(_, _)
        \* the number the characters i..j of k spell
        Number(i, j) == IF j < i THEN 0 ELSE Number(i, j - 1) * 10 + Value(At(j))
        high == Number(1, Len(k) - 5)
        low == Number(IF Len(k) > 5 THEN Len(k) - 4 ELSE 1, Len(k))
    IN  IF /\ Len(k) \in 1..10
           /\ \A i \in 1..Len(k) : \E d \in 1..10 : chars[d] = At(i)
           /\ (Len(k) > 1 => At(1) # "0")
           /\ (high < 42949 \/ (high = 42949 /\ low <= 67294))
        THEN <<high, low>>
        ELSE <<>>

\* {...obj, [k]: v}: an existing property keeps its place.  An object
\* enumerates its array-index keys first, in ascending numeric order, then
\* its other keys in the order they were added: a new array-index key goes
\* after the smaller array-index keys, any other new key is appended
Put(obj, k, v) ==
    LET Smaller(x, y) == x # <<>> /\ (x[1] < y[1] \/ (x[1] = y[1] /\ x[2] < y[2]))
    IN  IF HasKey(obj, k)
        THEN [i \in 1..Len(obj) |->
                 IF obj[i].key = k THEN [key |-> k, val |-> v] ELSE obj[i]]
        ELSE IF ArrayIndex(k) # <<>>
             THEN LET n == Cardinality({i \in 1..Len(obj) :
                                Smaller(ArrayIndex(obj[i].key), ArrayIndex(k))})
                  IN  SubSeq(obj, 1, n) \o <<[key |-> k, val |-> v]>>
                          \o SubSeq(obj, n + 1, Len(obj))
             ELSE Append(obj, [key |-> k, val |-> v])

\* Object.values(obj) / Object.keys(obj): the keys in enumeration order
KeyOrder(obj) == [i \in 1..Len(obj) |-> obj[i].key]

Keys(obj) == {obj[i].key : i \in 1..Len(obj)}

\* ------------------------------------------------------------------------
\* Events (types.ts ChunkData).  Every event carries every field; the ones
\* its type does not have are Absent / empty.
\* ------------------------------------------------------------------------
InitialEvent(ids) ==
    [type |-> "initial", tasks |-> ids, task_id |-> Absent, status |-> Absent,
     duration |-> Absent, data |-> Absent]
UpdateEvent(id, st, dur, data) ==
    [type |-> "update", tasks |-> <<>>, task_id |-> id, status |-> st,
     duration |-> dur, data |-> data]
FinalEvent(data) ==
    [type |-> "final", tasks |-> <<>>, task_id |-> Absent, status |-> Absent,
     duration |-> Absent, data |-> data]

\* chunk.tasks.reduce((obj, task) => ({...obj, [task.id]: task}), {})
RECURSIVE ReduceTasks(_, _)
ReduceTasks(obj, ids) ==
    IF ids = <<>> THEN obj
    ELSE ReduceTasks(Put(obj, Head(ids), Declared(Head(ids))), Tail(ids))

\* an updater that returns {[task_id]: updatedTask} without spreading prev
UpdateTasksNoSpread(prev, chunk) ==
    Put(<<>>, chunk.task_id,
        [Get(prev, chunk.task_id) EXCEPT !.status = chunk.status])

\* the updater passed to setTasks by case "update"
UpdateTasks(prev, chunk) ==
    LET old == Get(prev, chunk.task_id)
        withStatus == [old EXCEPT !.status = chunk.status]
        withDuration ==
            IF chunk.duration # Absent
            THEN [withStatus EXCEPT !.duration = chunk.duration]
            ELSE withStatus
        updatedTask ==
            IF chunk.status = "completed" /\ chunk.data # Absent
            THEN [withDuration EXCEPT !.additionalData = chunk.data]
            ELSE withDuration
    IN  Put(prev, chunk.task_id, updatedTask)

\* the switch of processStream (LoadingPlaylist.tsx): the task map after one
\* parsed chunk; case "final" only leaves the switch
SwitchTasks(prev, data) ==
    CASE data.type = "initial" -> ReduceTasks(<<>>, data.tasks)
      [] data.type = "update"  -> UpdateTasks(prev, data)
      [] OTHER                 -> prev

\* ------------------------------------------------------------------------
\* The wire.  The stream is a text of units: "{" and "}" delimit a JSON
\* object, "\n" is a line feed, and every other unit stands for the run of
\* characters that spells one member of the object.  reader.read() may cut
\* the text between any two units.
\* ------------------------------------------------------------------------
NL == "\n"

Opt(x) == IF x = Absent THEN <<>> ELSE <<x>>

\* JSON.stringify of an event, as the server writes it
Encode(e) ==
    CASE e.type = "initial" -> <<"{", "initial">> \o e.tasks \o <<"}">>
      [] e.type = "update"  ->
            <<"{", "update", e.task_id, e.status>> \o Opt(e.duration) \o Opt(e.data) \o <<"}">>
      [] OTHER              -> <<"{", "final", e.data, "}">>

\* what JSON.parse throws on
SyntaxError ==
    [type |-> "SyntaxError", tasks |-> <<>>, task_id |-> Absent, status |-> Absent,
     duration |-> Absent, data |-> Absent]

\* String.prototype.split("\n\n"): the pieces between non-overlapping
\* separators, scanning from the left; the last piece is what follows the
\* last separator
RECURSIVE SplitFrom(_, _)
SplitFrom(text, cur) ==
    IF text = <<>> THEN <<cur>>
    ELSE IF Len(text) >= 2 /\ text[1] = NL /\ text[2] = NL
         THEN <<cur>> \o SplitFrom(SubSeq(text, 3, Len(text)), <<>>)
         ELSE SplitFrom(Tail(text), Append(cur, Head(text)))

Split(text) == SplitFrom(text, <<>>)

\* String.prototype.trim(): line feeds are the only white space on the wire
RECURSIVE TrimLeft(_)
TrimLeft(s) == IF s # <<>> /\ Head(s) = NL THEN TrimLeft(Tail(s)) ELSE s
RECURSIVE TrimRight(_)
TrimRight(s) ==
    IF s # <<>> /\ s[Len(s)] = NL THEN TrimRight(SubSeq(s, 1, Len(s) - 1)) ELSE s
Trim(s) == TrimRight(TrimLeft(s))

\* the object the members between two braces spell; behind task_id and
\* status an update may carry a duration, a payload, both or none
ParseObject(body) ==
    LET rest == SubSeq(body, 4, Len(body))
        UpdateRest ==
            \/ rest = <<>>
            \/ Len(rest) = 1 /\ rest[1] \in (Durations \cup Payloads) \ {Absent}
            \/ /\ Len(rest) = 2 /\ rest[1] \in Durations \ {Absent}
               /\ rest[2] \in Payloads \ {Absent}
        dur == IF rest # <<>> /\ rest[1] \in Durations THEN rest[1] ELSE Absent
        data == IF rest # <<>> /\ rest[Len(rest)] \in Payloads
                THEN rest[Len(rest)] ELSE Absent
    IN  CASE body # <<>> /\ body[1] = "initial" -> InitialEvent(Tail(body))
          [] Len(body) >= 3 /\ body[1] = "update" /\ UpdateRest ->
                UpdateEvent(body[2], body[3], dur, data)
          [] Len(body) = 2 /\ body[1] = "final" -> FinalEvent(body[2])
          [] OTHER -> SyntaxError

\* JSON.parse(chunk): white space around the value is allowed; anything that
\* is not the complete text of one object throws
Parse(chunk) ==
    LET t == Trim(chunk)
    IN  IF /\ Len(t) >= 3 /\ t[1] = "{" /\ t[Len(t)] = "}"
           /\ \A i \in 2..(Len(t) - 1) : t[i] \notin {"{", "}", NL}
        THEN ParseObject(SubSeq(t, 2, Len(t) - 1))
        ELSE SyntaxError

\* the for-loop over the pieces of one read: the events that reach the
\* switch (blank pieces are skipped, a piece that does not parse is logged)
RECURSIVE Decoded(_)
Decoded(chunks) ==
    IF chunks = <<>> THEN <<>>
    ELSE LET chunk == Head(chunks)
             data == Parse(chunk)
         IN  IF Trim(chunk) = <<>> \/ data = SyntaxError
             THEN Decoded(Tail(chunks))
             ELSE <<data>> \o Decoded(Tail(chunks))

\* the queued setTasks calls of one read, applied in order
RECURSIVE ApplyAll(_, _)
ApplyAll(prev, events) ==
    IF events = <<>> THEN prev
    ELSE ApplyAll(SwitchTasks(prev, Head(events)), Tail(events))

\* ------------------------------------------------------------------------
\* State
\* ------------------------------------------------------------------------
VARIABLES
    \* LoadingPlaylist
    sent,          \* the text the server writes on the response body
    wire,          \* the part of it reader.read() has not delivered yet
    lpPhase,       \* "idle", "fetching", "reading", "done", "failed"
    isInitalized,  \* the ref guarding the mount effect
    lpEffects,     \* times the mount effect has run
    lpTasks,       \* useState<TaskMap>
    lpApplied,     \* history: the events that reached the switch, in order
    lpOrphans,     \* read loops of LoadingPlaylist instances that were taken
                   \* off the page and are still running
    \* PlaylistGenerationProvider
    tasks, status, finalData,
    runs,          \* one entry per startGeneration call: the credential its
                   \* request carries, whether its stream is being consumed,
                   \* and whether a later call abandoned it
    emitted,       \* events the server has emitted so far
    appliedFrom,   \* history: the run whose event handleStreamUpdate applied
                   \* last since the latest startGeneration (0: none)
    declared,      \* history: the ids of the latest `initial` event applied
                   \* since the latest startGeneration
    feed,          \* the events the server emits, in order, when the run
                   \* explored fixes them (<<>>: it may emit any)
    \* the browser
    page,          \* the route shown ("external": the provider's site)
    urlCode,       \* the code parameter of the callback URL
    loads,         \* page loads so far
    now,           \* the clock, in seconds
    verifierLS,    \* localStorage["verifier"]
    back,          \* session history of this document: the entries below
                   \* the current one, each <<path, code>>, oldest first
    fwd,           \* the entries above the current one, nearest last
    detours,       \* back and forward presses, logOut and guestLogin calls
                   \* so far
    \* AuthProvider
    user, spotifyAuth,
    loggedOutFrom, \* history: the user at the latest logOut call since the
                   \* latest login, code exchange begun or document load
                   \* ("none": no call)
    \* LoginCallback
    cbStatus, isLoggingIn, cbEffects,
    cbExchanges,   \* history: handleAuthCode calls made by this mount
    tokenReq,      \* the POST to /api/token in flight
    profileReq,    \* the spotifyLogin call waiting for fetchProfile
    orphanLogins,  \* exchanges begun by LoginCallback instances that were
                   \* taken off the page, still in flight
    welcomeTimers, \* pending setTimeout(() => navigate("/create-playlist"))
    loginPending,  \* verifiers of redirectToAuthCodeFlow calls waiting for
                   \* generateCodeChallenge
    \* the provider
    pendingChallenge, \* the challenge of the authorization URL issued last
    grants,           \* per code: the challenge it is bound to, and its use
    tokens,           \* the access tokens issued, with their expiry
    \* generateCodeVerifier
    codeVerifier,  \* the string the reduce has built so far
    \* GreedyAlgorithmVisualization
    randomFeatures,\* the features generateSongs drew, song by song
    songs,         \* initialSongs, as generateSongs returned it
    cutoff,        \* useState<number>(75), set by the slider
    \* ScoringEngine
    engine         \* the inputs of one ranking and selection (target profile,
                   \* weights, candidate pool, requested length, cutoff) and
                   \* its results so far

wireVars == <<sent, wire, lpPhase, isInitalized, lpEffects, lpTasks, lpApplied, lpOrphans>>
genVars == <<tasks, status, finalData, runs, emitted, appliedFrom, declared, feed>>
browserVars == <<page, urlCode, loads, now, verifierLS, back, fwd, detours>>
sessionVars == <<user, spotifyAuth, loggedOutFrom>>
callbackVars ==
    <<cbStatus, isLoggingIn, cbEffects, cbExchanges, tokenReq, profileReq,
      orphanLogins, welcomeTimers, loginPending>>
providerVars == <<pendingChallenge, grants, tokens>>
pureVars == <<codeVerifier, randomFeatures, songs, cutoff, engine>>
vars == <<wireVars, genVars, browserVars, sessionVars, callbackVars, providerVars,
          pureVars>>

\* ------------------------------------------------------------------------
\* Initial values
\* ------------------------------------------------------------------------
NoAuth == [present |-> FALSE, access_token |-> Absent, expires_in |-> 0, expires_at |-> 0]
NoResponse == [access_token |-> Absent, expires_in |-> 0, error |-> Absent]
NoTokenReq ==
    [active |-> FALSE, code |-> "null", code_verifier |-> "null", served |-> FALSE,
     res |-> NoResponse]
NoProfileReq ==
    [active |-> FALSE, res |-> NoResponse, outcome |-> "none", answered |-> FALSE]

Codes == {"c1", "c2"}
NoGrant == [challenge |-> <<>>, used |-> FALSE]

WireIdle ==
    /\ sent = <<>> /\ wire = <<>> /\ lpPhase = "idle" /\ isInitalized = FALSE
    /\ lpEffects = 0 /\ lpTasks = <<>> /\ lpApplied = <<>> /\ lpOrphans = 0

GenIdle ==
    /\ tasks = <<>> /\ status = "idle" /\ finalData = "null"
    /\ runs = <<>> /\ emitted = 0 /\ appliedFrom = 0 /\ declared = {}
    /\ feed = <<>>

SessionIdle == user = "null" /\ spotifyAuth = NoAuth /\ loggedOutFrom = "none"

CallbackIdle ==
    /\ cbStatus = "loggingIn" /\ isLoggingIn = FALSE /\ cbEffects = 0
    /\ cbExchanges = 0
    /\ tokenReq = NoTokenReq /\ profileReq = NoProfileReq
    /\ orphanLogins = <<>> /\ welcomeTimers = 0 /\ loginPending = {}

ProviderIdle ==
    /\ pendingChallenge = <<>> /\ grants = [c \in Codes |-> NoGrant] /\ tokens = {}

\* the cutoff of a visualization that has just been mounted
DefaultCutoff == 75

\* no verifier is being generated, the visualization is not shown and the
\* scoring engine is not at work
PureIdle ==
    /\ codeVerifier = <<>>
    /\ randomFeatures = <<>> /\ songs = <<>> /\ cutoff = DefaultCutoff
    /\ engine = [phase |-> "idle"]

\* ------------------------------------------------------------------------
\* LoadingPlaylist (LoadingPlaylist.tsx)
\* ------------------------------------------------------------------------
\* a frame the server cut short: no text of an object
CorruptFrame == <<"{", "update", "t1">>

\* every frame is followed by a blank line
RECURSIVE Text(_)
Text(frames) ==
    IF frames = <<>> THEN <<>>
    ELSE Head(frames) \o <<NL, NL>> \o Text(Tail(frames))

\* the mount effect; React.StrictMode runs it a second time right after the
\* first, before any awaited response can arrive
LpMount ==
    /\ page = "/loading-playlist"
    /\ lpEffects < 2
    /\ lpPhase \in {"idle", "fetching"}
    /\ lpEffects' = lpEffects + 1
    /\ IF ~isInitalized
       THEN /\ isInitalized' = TRUE
            /\ lpPhase' = "fetching"
       ELSE UNCHANGED <<isInitalized, lpPhase>>
    /\ UNCHANGED <<sent, wire, lpTasks, lpApplied, lpOrphans>>
    /\ UNCHANGED <<genVars, browserVars, sessionVars, callbackVars, providerVars>>
    /\ UNCHANGED pureVars

\* await fetch(...): a response with a body (whatever its HTTP status:
\* response.ok is not looked at), on which the server writes its text; a
\* response without one (logged, return); or a rejection that nothing
\* catches
LpResponse ==
    /\ lpPhase = "fetching"
    /\ \E outcome \in {"body", "nobody", "reject"} :
          /\ lpPhase' = IF outcome = "body" THEN "reading" ELSE "failed"
          /\ wire' = IF outcome = "body" THEN sent ELSE wire
    /\ UNCHANGED <<sent, isInitalized, lpEffects, lpTasks, lpApplied, lpOrphans>>
    /\ UNCHANGED <<genVars, browserVars, sessionVars, callbackVars, providerVars>>
    /\ UNCHANGED pureVars

\* one turn of the while loop: reader.read() delivers the next k units and
\* the for-loop handles every piece of decoder.decode(value).split("\n\n")
ReadUnits(k) ==
    LET value == SubSeq(wire, 1, k)
        events == Decoded(Split(value))
    IN  /\ wire' = SubSeq(wire, k + 1, Len(wire))
        /\ lpTasks' = ApplyAll(lpTasks, events)
        /\ lpApplied' = lpApplied \o events

LpRead ==
    /\ lpPhase = "reading"
    /\ wire # <<>>
    /\ \E k \in 1..Len(wire) : ReadUnits(k)
    /\ UNCHANGED <<sent, lpPhase, isInitalized, lpEffects, lpOrphans>>
    /\ UNCHANGED <<genVars, browserVars, sessionVars, callbackVars, providerVars>>
    /\ UNCHANGED pureVars

\* reader.read() reports done
LpReadDone ==
    /\ lpPhase = "reading"
    /\ wire = <<>>
    /\ lpPhase' = "done"
    /\ UNCHANGED <<sent, wire, isInitalized, lpEffects, lpTasks, lpApplied, lpOrphans>>
    /\ UNCHANGED <<genVars, browserVars, sessionVars, callbackVars, providerVars>>
    /\ UNCHANGED pureVars

\* reader.read() rejects (the connection is reset): processStream ends with
\* an unhandled rejection
LpReadError ==
    /\ lpPhase = "reading"
    /\ lpPhase' = "failed"
    /\ UNCHANGED <<sent, wire, isInitalized, lpEffects, lpTasks, lpApplied, lpOrphans>>
    /\ UNCHANGED <<genVars, browserVars, sessionVars, callbackVars, providerVars>>
    /\ UNCHANGED pureVars

\* LoadingPlaylist is on the page; the server may write any text of up to
\* MaxFrames frames on its stream
InitWire ==
    /\ LET frames == { Encode(InitialEvent(<<"t1">>)),
                       Encode(UpdateEvent("t1", "running", Absent, Absent)),
                       Encode(UpdateEvent("t1", "completed", Absent, Absent)),
                       Encode(FinalEvent("p1")),
                       CorruptFrame }
       IN  sent \in {Text(fs) : fs \in UNION {[1..n -> frames] : n \in 1..MaxFrames}}
    /\ wire = <<>>
    /\ lpPhase = "idle" /\ isInitalized = FALSE /\ lpEffects = 0
    /\ lpTasks = <<>> /\ lpApplied = <<>> /\ lpOrphans = 0
    /\ GenIdle /\ SessionIdle /\ CallbackIdle /\ ProviderIdle /\ PureIdle
    /\ page = "/loading-playlist" /\ urlCode = "null" /\ loads = 1 /\ now = 0
    /\ verifierLS = "null" /\ back = <<>> /\ fwd = <<>> /\ detours = 0

NextWire == LpMount \/ LpResponse \/ LpRead \/ LpReadDone \/ LpReadError

SpecWire == InitWire /\ [][NextWire]_vars

\* the events one read of the whole text decodes
WholeDecode == Decoded(Split(sent))

\* the page the router shows for a path: the index route sends to /home,
\* ProtectedRoute sends a visitor without user to /login, LoginCallback
\* does so when there is no code
Render(u, path, code, loggingIn) ==
    CASE path = "/" -> "/home"
      [] path = "/create-playlist" /\ u = "null" -> "/login"
      [] path = "/login/callback" /\ code = "null" /\ ~loggingIn -> "/login"
      [] OTHER -> path

\* ------------------------------------------------------------------------
\* PlaylistGenerationProvider (PlaylistGenerationContext)
\* ------------------------------------------------------------------------
\* a handler whose update case stores a new record {status} under the task
\* id instead of merging into prev[task_id]
HandleTasksReplace(prev, chunk) ==
    CASE chunk.type = "initial" -> ReduceTasks(<<>>, chunk.tasks)
      [] chunk.type = "update"  ->
            Put(prev, chunk.task_id, [NoTask EXCEPT !.status = chunk.status])
      [] OTHER                  -> prev

\* handleStreamUpdate: the three pieces of state after one chunk
HandleTasks(prev, chunk) ==
    CASE chunk.type = "initial" -> ReduceTasks(<<>>, chunk.tasks)
      [] chunk.type = "update"  -> UpdateTasks(prev, chunk)
      [] OTHER                  -> prev
HandleFinalData(prev, chunk) == IF chunk.type = "final" THEN chunk.data ELSE prev
\* a final case that stores the data and does not call setStatus
HandleStatusKept(prev, chunk) == prev
HandleStatus(prev, chunk) == IF chunk.type = "final" THEN "completed" ELSE prev

\* generatePlaylistStream(params, onUpdate), the call: a request of its own
\* is opened for the new run, and the runs begun before it are abandoned
\* (their connections are released, their later events discarded)
GeneratePlaylistStream(prev, auth) ==
    Append([r \in 1..Len(prev) |->
               [prev[r] EXCEPT !.open = FALSE,
                               !.superseded = prev[r].superseded \/ prev[r].open]],
           [open |-> TRUE, superseded |-> FALSE, auth |-> auth])

\* generatePlaylistStream after it has handed an event of run r to onUpdate:
\* `final` ends the consumption of the stream
Consumed(prev, r, chunk) ==
    IF chunk.type = "final" THEN [prev EXCEPT ![r].open = FALSE] ELSE prev

\* a startGeneration that calls generatePlaylistStream without resetting
\* tasks and finalData first
StartGenerationNoReset(auth) ==
    /\ status' = "streaming"
    /\ runs' = GeneratePlaylistStream(runs, auth)
    /\ appliedFrom' = 0
    /\ declared' = {}
    /\ UNCHANGED <<tasks, finalData, emitted, feed>>

\* startGeneration up to its await: the three resets, then the call of
\* generatePlaylistStream(params, handleStreamUpdate)
StartGeneration(auth) ==
    /\ tasks' = <<>>
    /\ finalData' = "null"
    /\ status' = "streaming"
    /\ runs' = GeneratePlaylistStream(runs, auth)
    /\ appliedFrom' = 0
    /\ declared' = {}
    /\ UNCHANGED <<emitted, feed>>

\* the stream of run r is being consumed: its request was opened, it has not
\* ended, failed or delivered `final`, and no later run was started
InFlight(r) == r \in 1..Len(runs) /\ runs[r].open

\* the events the server may emit next: any, or the next one of the run fed
NextEvents ==
    LET GenEvents ==
            {InitialEvent(ids) : ids \in {<<"t1">>, <<"t1", "t2">>}}
            \cup {UpdateEvent(id, st, dd[1], dd[2]) :
                    id \in {"t1", "t2", "zz"}, st \in {"running", "completed"},
                    dd \in {<<Absent, Absent>>, <<"5s", "d1">>}}
            \cup {FinalEvent("p1")}
    IN  IF feed = <<>> THEN (IF emitted < MaxEvents THEN GenEvents ELSE {})
        ELSE IF emitted < Len(feed) THEN {feed[emitted + 1]} ELSE {}

\* handleStreamUpdate, called with the next event of a stream in flight
Deliver ==
    /\ \E r \in 1..Len(runs), chunk \in NextEvents :
          /\ InFlight(r)
          /\ tasks' = HandleTasks(tasks, chunk)
          /\ finalData' = HandleFinalData(finalData, chunk)
          /\ status' = HandleStatus(status, chunk)
          /\ runs' = Consumed(runs, r, chunk)
          /\ appliedFrom' = r
          /\ declared' = IF chunk.type = "initial"
                          THEN {chunk.tasks[i] : i \in 1..Len(chunk.tasks)}
                          ELSE declared
    /\ emitted' = emitted + 1
    /\ UNCHANGED feed
    /\ UNCHANGED <<wireVars, browserVars, sessionVars, callbackVars, providerVars>>
    /\ UNCHANGED pureVars

\* the body of the stream in flight ends without `final`: the awaited
\* promise resolves
StreamEnd ==
    /\ \E r \in 1..Len(runs) :
          /\ InFlight(r)
          /\ runs' = [runs EXCEPT ![r].open = FALSE]
    /\ UNCHANGED <<tasks, status, finalData, emitted, appliedFrom, declared, feed>>
    /\ UNCHANGED <<wireVars, browserVars, sessionVars, callbackVars, providerVars>>
    /\ UNCHANGED pureVars

\* the request of the stream in flight fails: the awaited promise rejects
\* and the catch of startGeneration runs
StreamFail ==
    /\ \E r \in 1..Len(runs) :
          /\ InFlight(r)
          /\ runs' = [runs EXCEPT ![r].open = FALSE]
    /\ status' = "error"
    /\ UNCHANGED <<tasks, finalData, emitted, appliedFrom, declared, feed>>
    /\ UNCHANGED <<wireVars, browserVars, sessionVars, callbackVars, providerVars>>
    /\ UNCHANGED pureVars

\* ------------------------------------------------------------------------
\* The browser and the router (main.tsx)
\* ------------------------------------------------------------------------
\* the state React holds for the document, and the requests and timers the
\* document has started
reactVars ==
    <<wireVars, genVars, sessionVars, cbStatus, isLoggingIn, cbEffects,
      cbExchanges, tokenReq, profileReq, orphanLogins, welcomeTimers>>

\* a document load builds every provider and page anew; requests and timers
\* of the previous document are dropped; localStorage survives
ResetReact ==
    /\ user' = "null" /\ spotifyAuth' = NoAuth /\ loggedOutFrom' = "none"
    /\ cbStatus' = "loggingIn" /\ isLoggingIn' = FALSE /\ cbEffects' = 0
    /\ cbExchanges' = 0
    /\ tokenReq' = NoTokenReq /\ profileReq' = NoProfileReq
    /\ orphanLogins' = <<>> /\ welcomeTimers' = 0
    /\ tasks' = <<>> /\ status' = "idle" /\ finalData' = "null"
    /\ runs' = <<>> /\ appliedFrom' = 0 /\ declared' = {}
    /\ UNCHANGED <<emitted, feed>>
    /\ lpPhase' = "idle" /\ isInitalized' = FALSE /\ lpEffects' = 0
    /\ lpTasks' = <<>> /\ lpApplied' = <<>> /\ wire' = <<>> /\ UNCHANGED sent
    /\ lpOrphans' = 0

\* history.pushState: the entry goes on top of the stack (the browser keeps
\* so many entries and drops the oldest)
Push(stack, entry) ==
    LET pushed == Append(stack, entry)
    IN  IF Len(pushed) > MaxHistory THEN Tail(pushed) ELSE pushed

\* the router renders the entry <<path, code>> with the entries b below it
\* and f above it: a <Navigate> of the route pushes its target on top of
\* the entry asked for and cuts the entries above
Arrive(u, path, code, b, f) ==
    LET shown == Render(u, path, code, FALSE)
    IN  IF shown = path
        THEN [page |-> path, urlCode |-> code, back |-> b, fwd |-> f]
        ELSE [page |-> shown, urlCode |-> "null",
              back |-> Push(b, <<path, code>>), fwd |-> <<>>]

\* one more step aside of the flow, while the behaviour explored has any
\* left
Detour ==
    /\ detours < MaxDetours
    /\ detours' = detours + 1

\* the read loop of the mounted LoadingPlaylist is running
LpActive == lpPhase \in {"fetching", "reading"}

\* the router takes LoadingPlaylist off the page: its state and ref are
\* gone; the effect returns no cleanup, so a read loop it started goes on
\* (one more read loop without a page, up to the number kept count of)
LpUnmount ==
    /\ lpPhase' = "idle" /\ isInitalized' = FALSE /\ lpEffects' = 0
    /\ lpTasks' = <<>> /\ lpApplied' = <<>> /\ wire' = <<>> /\ UNCHANGED sent
    /\ lpOrphans' = IF LpActive /\ lpOrphans < MaxOrphans THEN lpOrphans + 1
                    ELSE lpOrphans

\* the read loop of a LoadingPlaylist that is off the page comes to its
\* end (done, or a rejection); its setTasks calls had nothing to update
OrphanLoopEnd ==
    /\ lpOrphans > 0
    /\ lpOrphans' = lpOrphans - 1
    /\ UNCHANGED <<sent, wire, lpPhase, isInitalized, lpEffects, lpTasks, lpApplied>>
    /\ UNCHANGED <<genVars, browserVars, sessionVars, callbackVars, providerVars>>
    /\ UNCHANGED pureVars

\* the router takes LoginCallback off the page: its state and ref are gone;
\* the effect returns no cleanup, so the exchange it started stays in
\* flight, as an entry of orphanLogins, and its .then and .catch will run;
\* the first MaxOrphanLogins exchanges off the page are followed
CallbackUnmount ==
    /\ cbStatus' = "loggingIn" /\ isLoggingIn' = FALSE /\ cbEffects' = 0
    /\ cbExchanges' = 0
    /\ tokenReq' = NoTokenReq /\ profileReq' = NoProfileReq
    /\ LET logins == orphanLogins \o
                      (IF tokenReq.active \/ profileReq.active
                       THEN <<[tokenReq |-> tokenReq, profileReq |-> profileReq]>>
                       ELSE <<>>)
       IN  orphanLogins' = IF Len(logins) > MaxOrphanLogins
                           THEN SubSeq(logins, 1, MaxOrphanLogins)
                           ELSE logins

\* the router shows the entry dest; a page that is no longer shown is
\* unmounted
Go(dest) ==
    /\ page' = dest.page /\ urlCode' = dest.urlCode
    /\ back' = dest.back /\ fwd' = dest.fwd
    /\ IF dest.page # page
       THEN CallbackUnmount /\ LpUnmount
       ELSE UNCHANGED <<wireVars, cbStatus, isLoggingIn, cbEffects, cbExchanges,
                        tokenReq, profileReq, orphanLogins>>

\* the visitor opens a URL of the application (address bar, bookmark, the
\* Return to Login link): a new document, while the behaviour explored has
\* fewer than `limit` page loads
OpenUrlWithin(limit) ==
    /\ loads < limit
    /\ \E path \in {"/", "/home", "/test", "/login", "/login/callback",
                       "/view-playlist", "/loading-playlist", "/create-playlist"},
          code \in Codes \cup {"null"} :
          /\ code # "null" => path = "/login/callback"
          /\ LET dest == Arrive("null", path, code, <<>>, <<>>)
             IN  /\ page' = dest.page /\ urlCode' = dest.urlCode
                 /\ back' = dest.back /\ fwd' = dest.fwd
    /\ loads' = loads + 1
    /\ ResetReact
    /\ loginPending' = {}
    /\ UNCHANGED <<now, verifierLS, detours, providerVars>>
    /\ UNCHANGED pureVars

OpenUrl == OpenUrlWithin(MaxLoads)

\* window.location.reload() (the Try Again button of the callback page, or
\* the browser's own): the entry is loaded anew, the history is kept
ReloadWithin(limit) ==
    /\ loads < limit
    /\ page # "external"
    /\ LET dest == Arrive("null", page, urlCode, back, fwd)
       IN  /\ page' = dest.page /\ urlCode' = dest.urlCode
           /\ back' = dest.back /\ fwd' = dest.fwd
    /\ loads' = loads + 1
    /\ ResetReact
    /\ loginPending' = {}
    /\ UNCHANGED <<now, verifierLS, detours, providerVars>>
    /\ UNCHANGED pureVars

Reload == ReloadWithin(MaxLoads)

\* the browser's back button, within the document
HistoryBack ==
    /\ page # "external"
    /\ back # <<>>
    /\ LET target == back[Len(back)]
       IN  Go(Arrive(user, target[1], target[2], SubSeq(back, 1, Len(back) - 1),
                     Push(fwd, <<page, urlCode>>)))
    /\ Detour
    /\ UNCHANGED <<loads, now, verifierLS, welcomeTimers, loginPending>>
    /\ UNCHANGED <<genVars, sessionVars, providerVars>>
    /\ UNCHANGED pureVars

\* the browser's forward button, within the document
HistoryForward ==
    /\ page # "external"
    /\ fwd # <<>>
    /\ LET target == fwd[Len(fwd)]
       IN  Go(Arrive(user, target[1], target[2], Push(back, <<page, urlCode>>),
                     SubSeq(fwd, 1, Len(fwd) - 1)))
    /\ Detour
    /\ UNCHANGED <<loads, now, verifierLS, welcomeTimers, loginPending>>
    /\ UNCHANGED <<genVars, sessionVars, providerVars>>
    /\ UNCHANGED pureVars

\* CreatePlaylist.submitForm; the page is rendered inside ProtectedRoute.
\* startGeneration runs up to its await, then navigate("/loading-playlist")
SubmitForm ==
    /\ page = "/create-playlist"
    /\ user # "null"
    /\ Len(runs) < MaxRuns
    /\ StartGeneration(spotifyAuth)
    /\ Go(Arrive(user, "/loading-playlist", "null", Push(back, <<page, urlCode>>), <<>>))
    /\ UNCHANGED <<loads, now, verifierLS, detours, welcomeTimers, loginPending>>
    /\ UNCHANGED <<sessionVars, providerVars>>
    /\ UNCHANGED pureVars

Tick ==
    /\ now < MaxTime
    /\ now' = now + 1
    /\ UNCHANGED <<page, urlCode, loads, verifierLS, back, fwd, detours>>
    /\ UNCHANGED <<wireVars, genVars, sessionVars, callbackVars, providerVars>>
    /\ UNCHANGED pureVars

\* ------------------------------------------------------------------------
\* PKCE (spotify/auth)
\* ------------------------------------------------------------------------
\* generateCodeChallenge: base64url(SHA-256(verifier)); the hash is kept as
\* a one-way tag, equal for equal verifiers only
Challenge(verifier) == <<"S256", verifier>>

\* generateCodeVerifier(128): 128 random characters; a value no login
\* attempt still known to the browser or the provider was begun with
FreshVerifiers ==
    {v \in {"v1", "v2", "v3"} :
        /\ v # verifierLS
        /\ v \notin loginPending
        /\ \A c \in Codes : grants[c].challenge # Challenge(v)}

\* a redirectToAuthCodeFlow that keeps a verifier already stored
StoreVerifierIfEmpty(prev, verifier) == IF prev = "null" THEN verifier ELSE prev

\* localStorage.setItem("verifier", verifier): the one key is overwritten
StoreVerifier(prev, verifier) == verifier

\* handleSpotifyLogin, the click handler of the Login page: it calls
\* redirectToAuthCodeFlow, which draws the verifier and runs up to its
\* await of generateCodeChallenge; the handler does not wait for it
HandleSpotifyLogin ==
    /\ page = "/login"
    /\ Cardinality(loginPending) < MaxPendingLogins
    /\ \E verifier \in FreshVerifiers :
          loginPending' = loginPending \cup {verifier}
    /\ UNCHANGED <<cbStatus, isLoggingIn, cbEffects, cbExchanges, tokenReq,
                   profileReq, orphanLogins, welcomeTimers>>
    /\ UNCHANGED <<wireVars, genVars, browserVars, sessionVars, providerVars>>
    /\ UNCHANGED pureVars

\* redirectToAuthCodeFlow after its await: the verifier is stored and
\* document.location is set to the provider's /authorize with the
\* challenge; the document leaves.  A call still waiting when the document
\* is on its way out may run yet, and sets the location anew
RedirectToAuthCodeFlow ==
    /\ \E verifier \in loginPending :
          /\ verifierLS' = StoreVerifier(verifierLS, verifier)
          /\ pendingChallenge' = Challenge(verifier)
          /\ loginPending' = loginPending \ {verifier}
    /\ IF page # "external"
       THEN /\ page' = "external" /\ urlCode' = "null"
            /\ back' = <<>> /\ fwd' = <<>>
            /\ ResetReact
       ELSE UNCHANGED <<page, urlCode, back, fwd, reactVars>>
    /\ UNCHANGED <<loads, now, detours, grants, tokens>>
    /\ UNCHANGED pureVars

\* the provider: the visitor approves, the provider binds a fresh code to
\* the challenge and redirects to /login/callback?code=...
ProviderApproveWithin(limit) ==
    /\ page = "external"
    /\ loads < limit
    /\ \E c \in Codes :
          /\ grants[c] = NoGrant
          /\ grants' = [grants EXCEPT ![c] = [challenge |-> pendingChallenge, used |-> FALSE]]
          /\ urlCode' = c
    /\ page' = "/login/callback"
    /\ back' = <<>> /\ fwd' = <<>>
    /\ loads' = loads + 1
    /\ loginPending' = {}
    /\ UNCHANGED <<now, verifierLS, detours, pendingChallenge, tokens>>
    /\ UNCHANGED reactVars
    /\ UNCHANGED pureVars

ProviderApprove == ProviderApproveWithin(MaxLoads)

\* the provider: the visitor refuses; the callback URL carries no code
ProviderDenyWithin(limit) ==
    /\ page = "external"
    /\ loads < limit
    /\ LET dest == Arrive("null", "/login/callback", "null", <<>>, <<>>)
       IN  /\ page' = dest.page /\ urlCode' = dest.urlCode
           /\ back' = dest.back /\ fwd' = dest.fwd
    /\ loads' = loads + 1
    /\ loginPending' = {}
    /\ UNCHANGED <<now, verifierLS, detours, pendingChallenge, grants, tokens>>
    /\ UNCHANGED reactVars
    /\ UNCHANGED pureVars

ProviderDeny == ProviderDenyWithin(MaxLoads)

TokenOf(c) == IF c = "c1" THEN "tok1" ELSE "tok2"
ExpiresIn == {1}

\* the provider's answer to grant_type=authorization_code
GrantValid(req) ==
    /\ req.code \in Codes
    /\ grants[req.code] # NoGrant
    /\ ~grants[req.code].used
    /\ grants[req.code].challenge = Challenge(req.code_verifier)

\* ------------------------------------------------------------------------
\* LoginCallback and getAccessToken
\* ------------------------------------------------------------------------
\* getAccessToken up to its await: the verifier is read from localStorage
\* and the POST is sent
GetAccessTokenRequest(code) ==
    [active |-> TRUE, code |-> code, code_verifier |-> verifierLS, served |-> FALSE,
     res |-> NoResponse]

\* an effect that calls handleAuthCode and leaves the ref as it was
IsLoggingInKept(current) == current

\* isLoggingIn.current = true, a statement of the effect run that calls
\* handleAuthCode: next to the call, before (newer page) or after it (older
\* page), and in both before the effect run returns
IsLoggingInSet(current) == TRUE

\* the mount effect of LoginCallback; React.StrictMode runs it twice
CallbackEffect ==
    /\ page = "/login/callback"
    /\ cbEffects < 2
    /\ cbEffects' = cbEffects + 1
    /\ IF urlCode # "null" /\ ~isLoggingIn
       THEN /\ cbStatus' = "loggingIn"
            /\ isLoggingIn' = IsLoggingInSet(isLoggingIn)
            /\ tokenReq' = GetAccessTokenRequest(urlCode)
            /\ cbExchanges' = cbExchanges + 1
            /\ loggedOutFrom' = "none"
       ELSE UNCHANGED <<cbStatus, isLoggingIn, tokenReq, cbExchanges, loggedOutFrom>>
    /\ UNCHANGED <<profileReq, orphanLogins, welcomeTimers, loginPending>>
    /\ UNCHANGED <<user, spotifyAuth>>
    /\ UNCHANGED <<wireVars, genVars, browserVars, providerVars>>
    /\ UNCHANGED pureVars

\* the body of a token response: the token on a valid grant, else the
\* provider's error object
TokenBody(req, expires_in) ==
    IF GrantValid(req)
    THEN [access_token |-> TokenOf(req.code), expires_in |-> expires_in, error |-> Absent]
    ELSE [access_token |-> Absent, expires_in |-> 0, error |-> "invalid_grant"]

\* the provider serves the POST req: a valid grant is spent and its token
\* issued
GrantsAfter(req) ==
    IF GrantValid(req) THEN [grants EXCEPT ![req.code].used = TRUE] ELSE grants
TokensAfter(req, expires_in) ==
    IF GrantValid(req)
    THEN tokens \cup {[token |-> TokenOf(req.code), expires |-> now + expires_in]}
    ELSE tokens

\* the token request once the provider has answered it: `await fetch`
\* has resolved with the response, `await result.json()` is pending
Served(req, expires_in) ==
    [req EXCEPT !.served = TRUE, !.res = TokenBody(req, expires_in)]

\* the token request once its promise has settled
Settled(req) == [req EXCEPT !.active = FALSE, !.served = FALSE, !.res = NoResponse]

\* spotifyLogin(res) up to its await of fetchProfile(res.access_token)
GetProfileRequest(res) ==
    [active |-> TRUE, res |-> res, outcome |-> "none", answered |-> FALSE]

\* the body result.json() resolves with: the one the provider answered
\* req with, in this step or in an earlier one
BodyOf(req, expires_in) ==
    IF req.served THEN req.res ELSE TokenBody(req, expires_in)

\* the provider answers the POST of the mounted LoginCallback and `await
\* fetch` resolves; result.json() has not resolved yet
TokenFetched ==
    /\ tokenReq.active /\ ~tokenReq.served
    /\ \E expires_in \in ExpiresIn :
          /\ tokenReq' = Served(tokenReq, expires_in)
          /\ grants' = GrantsAfter(tokenReq)
          /\ tokens' = TokensAfter(tokenReq, expires_in)
    /\ UNCHANGED <<cbStatus, isLoggingIn, cbEffects, cbExchanges, profileReq,
                   orphanLogins, welcomeTimers, loginPending, pendingChallenge>>
    /\ UNCHANGED <<wireVars, genVars, browserVars, sessionVars>>
    /\ UNCHANGED pureVars

\* the promise of getAccessToken of the mounted LoginCallback settles.
\* `answered`: the provider's answer arrives in this step (else fetch has
\* resolved before, or it rejects unanswered).  "reject": fetch rejects or
\* the body is no JSON, and the .catch of the effect runs.  "json":
\* result.json() resolves with the body whatever the HTTP status, and .then
\* calls spotifyLogin(res), which runs up to its await of
\* fetchProfile(res.access_token)
TokenResponse ==
    /\ tokenReq.active
    /\ \E outcome \in {"reject", "json"}, expires_in \in ExpiresIn, answered \in BOOLEAN :
          /\ answered => ~tokenReq.served
          /\ outcome = "json" => (answered \/ tokenReq.served)
          /\ IF answered
             THEN /\ grants' = GrantsAfter(tokenReq)
                  /\ tokens' = TokensAfter(tokenReq, expires_in)
             ELSE UNCHANGED <<grants, tokens>>
          /\ IF outcome = "reject"
             THEN /\ cbStatus' = "error"
                  /\ UNCHANGED profileReq
             ELSE /\ profileReq' = GetProfileRequest(BodyOf(tokenReq, expires_in))
                  /\ UNCHANGED cbStatus
    /\ tokenReq' = Settled(tokenReq)
    /\ UNCHANGED <<isLoggingIn, cbEffects, cbExchanges, orphanLogins, welcomeTimers,
                   loginPending, pendingChallenge>>
    /\ UNCHANGED <<wireVars, genVars, browserVars, sessionVars>>
    /\ UNCHANGED pureVars

\* the sequence without its i-th entry
Remove(seq, i) == SubSeq(seq, 1, i - 1) \o SubSeq(seq, i + 1, Len(seq))

\* the provider answers the POST of a LoginCallback that is off the page
OrphanTokenFetched ==
    /\ \E i \in 1..Len(orphanLogins), expires_in \in ExpiresIn :
          LET req == orphanLogins[i].tokenReq
          IN  /\ req.active /\ ~req.served
              /\ orphanLogins' =
                    [orphanLogins EXCEPT ![i].tokenReq = Served(req, expires_in)]
              /\ grants' = GrantsAfter(req)
              /\ tokens' = TokensAfter(req, expires_in)
    /\ UNCHANGED <<cbStatus, isLoggingIn, cbEffects, cbExchanges, tokenReq, profileReq,
                   welcomeTimers, loginPending, pendingChallenge>>
    /\ UNCHANGED <<wireVars, genVars, browserVars, sessionVars>>
    /\ UNCHANGED pureVars

\* the promise of getAccessToken of the i-th LoginCallback off the page
\* settles: the same .then and .catch run; setStatus has no component to
\* update
OrphanTokenSettles(i, outcome) ==
    /\ i \in 1..Len(orphanLogins)
    /\ \E expires_in \in ExpiresIn, answered \in BOOLEAN :
          LET req == orphanLogins[i].tokenReq
          IN  /\ req.active
              /\ answered => ~req.served
              /\ outcome = "json" => (answered \/ req.served)
              /\ IF answered
                 THEN /\ grants' = GrantsAfter(req)
                      /\ tokens' = TokensAfter(req, expires_in)
                 ELSE UNCHANGED <<grants, tokens>>
              /\ IF outcome = "reject"
                 THEN orphanLogins' = Remove(orphanLogins, i)
                 ELSE orphanLogins' =
                         [orphanLogins EXCEPT ![i] =
                             [tokenReq |-> Settled(req),
                              profileReq |-> GetProfileRequest(BodyOf(req, expires_in))]]
    /\ UNCHANGED <<cbStatus, isLoggingIn, cbEffects, cbExchanges, tokenReq, profileReq,
                   welcomeTimers, loginPending, pendingChallenge>>
    /\ UNCHANGED <<wireVars, genVars, browserVars, sessionVars>>
    /\ UNCHANGED pureVars

OrphanTokenResponse ==
    \E i \in 1..MaxOrphanLogins, outcome \in {"reject", "json"} :
        OrphanTokenSettles(i, outcome)

\* ------------------------------------------------------------------------
\* AuthProvider
\* ------------------------------------------------------------------------
\* the Web API accepts a bearer token it issued and that has not expired
TokenAccepted(token) == \E t \in tokens : t.token = token /\ now < t.expires

\* spotifyLogin after fetchProfile: the user it sets
LoginUser(prev, spotifyProfile) ==
    IF spotifyProfile # "null" THEN "spotify" ELSE prev

\* spotifyLogin without its `if (spotifyProfile)`: the credential is set
\* whatever fetchProfile returned
LoginAuthUnchecked(prev, tokenResponse, spotifyProfile) ==
    [present |-> TRUE, access_token |-> tokenResponse.access_token,
     expires_in |-> tokenResponse.expires_in,
     expires_at |-> now + tokenResponse.expires_in]

\* spotifyLogin after fetchProfile: the credential it sets
LoginAuth(prev, tokenResponse, spotifyProfile) ==
    IF spotifyProfile # "null"
    THEN [present |-> TRUE, access_token |-> tokenResponse.access_token,
          expires_in |-> tokenResponse.expires_in,
          expires_at |-> now + tokenResponse.expires_in]
    ELSE prev

\* setTimeout(() => navigate("/create-playlist"), 1500): one more timer
\* pending, up to the number followed
AddTimer(n) == IF n < MaxTimers THEN n + 1 ELSE n

\* the Web API answers GET /v1/me of the mounted LoginCallback with a 200
\* and `await fetch` of fetchSpotifyEndpoint resolves; response.json() has
\* not resolved yet
ProfileFetched ==
    /\ profileReq.active /\ ~profileReq.answered
    /\ TokenAccepted(profileReq.res.access_token)
    /\ profileReq' = [profileReq EXCEPT !.answered = TRUE]
    /\ UNCHANGED <<cbStatus, isLoggingIn, cbEffects, cbExchanges, tokenReq, orphanLogins,
                   welcomeTimers, loginPending>>
    /\ UNCHANGED <<wireVars, genVars, browserVars, sessionVars, providerVars>>
    /\ UNCHANGED pureVars

\* fetchProfile may resolve with the profile for req: the 200 has come
\* before, or comes in this step
ProfileAvailable(req) == req.answered \/ TokenAccepted(req.res.access_token)

\* fetchProfile settles for the mounted LoginCallback (null on any network
\* or HTTP error, or when the body is no JSON), spotifyLogin finishes,
\* stamping the credential with the time it is now, and the .then of the
\* effect goes on to setStatus("welcome") and sets the timer
ProfileResponse ==
    /\ profileReq.active
    /\ \E spotifyProfile \in {"profile", "null"} :
          /\ spotifyProfile = "profile" => ProfileAvailable(profileReq)
          /\ user' = LoginUser(user, spotifyProfile)
          /\ spotifyAuth' = LoginAuth(spotifyAuth, profileReq.res, spotifyProfile)
          /\ loggedOutFrom' = IF spotifyProfile # "null" THEN "none" ELSE loggedOutFrom
          /\ profileReq' = [profileReq EXCEPT !.active = FALSE, !.answered = FALSE,
                                              !.outcome = spotifyProfile]
    /\ cbStatus' = "welcome"
    /\ welcomeTimers' = AddTimer(welcomeTimers)
    /\ UNCHANGED <<isLoggingIn, cbEffects, cbExchanges, tokenReq, orphanLogins,
                   loginPending>>
    /\ UNCHANGED <<wireVars, genVars, browserVars, providerVars>>
    /\ UNCHANGED pureVars

\* the Web API answers GET /v1/me of a LoginCallback that is off the page
\* with a 200
OrphanProfileFetched ==
    /\ \E i \in 1..Len(orphanLogins) :
          LET req == orphanLogins[i].profileReq
          IN  /\ req.active /\ ~req.answered
              /\ TokenAccepted(req.res.access_token)
              /\ orphanLogins' = [orphanLogins EXCEPT ![i].profileReq.answered = TRUE]
    /\ UNCHANGED <<cbStatus, isLoggingIn, cbEffects, cbExchanges, tokenReq, profileReq,
                   welcomeTimers, loginPending>>
    /\ UNCHANGED <<wireVars, genVars, browserVars, sessionVars, providerVars>>
    /\ UNCHANGED pureVars

\* fetchProfile settles for the i-th LoginCallback off the page:
\* spotifyLogin finishes as it does for a mounted one, setStatus has no
\* component to update, and the timer is set
OrphanProfileSettles(i, spotifyProfile) ==
    /\ i \in 1..Len(orphanLogins)
    /\ LET req == orphanLogins[i].profileReq
       IN  /\ req.active
           /\ spotifyProfile = "profile" => ProfileAvailable(req)
           /\ user' = LoginUser(user, spotifyProfile)
           /\ spotifyAuth' = LoginAuth(spotifyAuth, req.res, spotifyProfile)
           /\ loggedOutFrom' = IF spotifyProfile # "null" THEN "none" ELSE loggedOutFrom
           /\ orphanLogins' = Remove(orphanLogins, i)
    /\ welcomeTimers' = AddTimer(welcomeTimers)
    /\ UNCHANGED <<cbStatus, isLoggingIn, cbEffects, cbExchanges, tokenReq, profileReq,
                   loginPending>>
    /\ UNCHANGED <<wireVars, genVars, browserVars, providerVars>>
    /\ UNCHANGED pureVars

OrphanProfileResponse ==
    \E i \in 1..MaxOrphanLogins, spotifyProfile \in {"profile", "null"} :
        OrphanProfileSettles(i, spotifyProfile)

\* a welcome timer fires: navigate("/create-playlist"), whatever page is
\* shown and whoever is logged in by then
WelcomeNavigate ==
    /\ welcomeTimers > 0
    /\ welcomeTimers' = welcomeTimers - 1
    /\ Go(Arrive(user, "/create-playlist", "null", Push(back, <<page, urlCode>>), <<>>))
    /\ UNCHANGED <<loads, now, verifierLS, detours, loginPending>>
    /\ UNCHANGED <<genVars, sessionVars, providerVars>>
    /\ UNCHANGED pureVars

\* guestLogin: setUser only
GuestLogin ==
    /\ page # "external"
    /\ user' = "guest"
    /\ loggedOutFrom' = "none"
    /\ Detour
    /\ UNCHANGED spotifyAuth
    /\ UNCHANGED <<page, urlCode, loads, now, verifierLS, back, fwd>>
    /\ UNCHANGED <<wireVars, genVars, callbackVars, providerVars>>
    /\ UNCHANGED pureVars

\* logOut without its setSpotifyAuth(null)
LogOutAuthKept(prev) == prev

\* logOut: the credential it sets
LogOutAuth(prev) == NoAuth

\* logOut: setUser(null), setSpotifyAuth(null), navigate("/login")
LogOut ==
    /\ page # "external"
    /\ user' = "null"
    /\ spotifyAuth' = LogOutAuth(spotifyAuth)
    /\ loggedOutFrom' = user
    /\ Go(Arrive("null", "/login", "null", Push(back, <<page, urlCode>>), <<>>))
    /\ Detour
    /\ UNCHANGED <<loads, now, verifierLS, welcomeTimers, loginPending>>
    /\ UNCHANGED <<genVars, providerVars>>
    /\ UNCHANGED pureVars

\* ------------------------------------------------------------------------
\* Specifications
\* ------------------------------------------------------------------------
\* the first document load: the login page, nothing stored
InitAuth ==
    /\ sent = Text(<<Encode(FinalEvent("p1"))>>) /\ wire = <<>>
    /\ lpPhase = "idle" /\ isInitalized = FALSE /\ lpEffects = 0
    /\ lpTasks = <<>> /\ lpApplied = <<>> /\ lpOrphans = 0
    /\ tasks = <<>> /\ status = "idle" /\ finalData = "null"
    /\ runs = <<>> /\ emitted = 0 /\ appliedFrom = 0 /\ declared = {}
    /\ feed = <<FinalEvent("p1")>>
    /\ SessionIdle /\ CallbackIdle /\ ProviderIdle /\ PureIdle
    /\ page = "/login" /\ urlCode = "null" /\ loads = 1 /\ now = 0
    /\ verifierLS = "null" /\ back = <<>> /\ fwd = <<>> /\ detours = 0

NextAuth ==
    \/ OpenUrl \/ Reload \/ Tick
    \/ HandleSpotifyLogin \/ RedirectToAuthCodeFlow
    \/ ProviderApprove \/ ProviderDeny
    \/ CallbackEffect \/ TokenFetched \/ TokenResponse
    \/ ProfileFetched \/ ProfileResponse
    \/ OrphanTokenFetched \/ OrphanTokenResponse
    \/ OrphanProfileFetched \/ OrphanProfileResponse \/ WelcomeNavigate
    \/ GuestLogin \/ LogOut
    \/ SubmitForm \/ HistoryBack \/ HistoryForward
    \/ LpMount \/ LpResponse \/ LpRead \/ LpReadDone \/ LpReadError
    \/ OrphanLoopEnd
    \/ Deliver \/ StreamEnd \/ StreamFail

SpecAuth == InitAuth /\ [][NextAuth]_vars

\* SpecLogin: the session followed over one page load more, so that a
\* visitor who began a second login can come back from the provider, or to
\* the callback URL of the first.  The events of the generation streams are
\* left out: they write the variables of the generation context only,
\* which no step of the login reads
NextLogin ==
    \/ OpenUrlWithin(MaxLoginLoads) \/ ReloadWithin(MaxLoginLoads) \/ Tick
    \/ HandleSpotifyLogin \/ RedirectToAuthCodeFlow
    \/ ProviderApproveWithin(MaxLoginLoads) \/ ProviderDenyWithin(MaxLoginLoads)
    \/ CallbackEffect \/ TokenFetched \/ TokenResponse
    \/ ProfileFetched \/ ProfileResponse
    \/ OrphanTokenFetched \/ OrphanTokenResponse
    \/ OrphanProfileFetched \/ OrphanProfileResponse \/ WelcomeNavigate
    \/ GuestLogin \/ LogOut
    \/ SubmitForm \/ HistoryBack \/ HistoryForward
    \/ LpMount \/ LpResponse \/ LpRead \/ LpReadDone \/ LpReadError
    \/ OrphanLoopEnd

SpecLogin == InitAuth /\ [][NextLogin]_vars

\* a visitor who has just logged in with Spotify and was taken to the form
\* (a state SpecAuth reaches)
InitGen ==
    /\ sent = Text(<<Encode(FinalEvent("p1"))>>) /\ wire = <<>>
    /\ lpPhase = "idle" /\ isInitalized = FALSE /\ lpEffects = 0
    /\ lpTasks = <<>> /\ lpApplied = <<>> /\ lpOrphans = 0
    /\ GenIdle /\ PureIdle
    /\ page = "/create-playlist" /\ urlCode = "null" /\ loads = 2 /\ now = 0
    /\ verifierLS = "v1"
    /\ back = <<<<"/login/callback", "c1">>>> /\ fwd = <<>> /\ detours = 0
    /\ user = "spotify"
    /\ spotifyAuth = [present |-> TRUE, access_token |-> "tok1", expires_in |-> 1,
                      expires_at |-> 1]
    /\ loggedOutFrom = "none"
    /\ CallbackIdle
    /\ pendingChallenge = Challenge("v1")
    /\ grants = [c \in Codes |->
                   IF c = "c1" THEN [challenge |-> Challenge("v1"), used |-> TRUE]
                   ELSE NoGrant]
    /\ tokens = {[token |-> "tok1", expires |-> 1]}

\* the steps of a logged-in visitor who stays in the document: the form, the
\* history buttons, LoadingPlaylist and its read loop, LoginCallback when
\* the history leads back to it (its code is spent: no exchange yields a
\* token, so no profile request is answered with a 200), and the events of
\* the generation streams (the server may emit any)
NextGen ==
    \/ SubmitForm \/ HistoryBack \/ HistoryForward
    \/ CallbackEffect \/ TokenFetched \/ TokenResponse \/ ProfileResponse
    \/ OrphanTokenFetched \/ OrphanTokenResponse \/ OrphanProfileResponse
    \/ WelcomeNavigate
    \/ LpMount \/ LpResponse \/ LpRead \/ LpReadDone \/ LpReadError
    \/ OrphanLoopEnd
    \/ Deliver \/ StreamEnd \/ StreamFail

SpecGen == InitGen /\ [][NextGen]_vars

\* ------------------------------------------------------------------------
\* SpecFold: the two event handlers (handleStreamUpdate of the context and
\* the switch of processStream), each consuming its own stream of one
\* well-formed run: an `initial` event, then for each declared task a
\* `running` update followed by a `completed` update.  Nothing orders the
\* two consumers; the reads of LoadingPlaylist end between frames
\* ------------------------------------------------------------------------

\* the updates of the run, task by task
RECURSIVE FoldUpdates(_, _)
FoldUpdates(ids, dd) ==
    IF ids = <<>> THEN <<>>
    ELSE <<UpdateEvent(Head(ids), "running", Absent, Absent),
           UpdateEvent(Head(ids), "completed", dd[1], dd[2])>>
         \o FoldUpdates(Tail(ids), dd)

\* the runs fed: the declaration list of the `initial` event holds names
\* and ids that spell an array index (an id may occur twice); the tasks are
\* worked in declaration order or in reverse
FoldScripts ==
    LET decls == UNION {[1..n -> {"t1", "t2", "1", "2"}] : n \in 0..MaxTasks}
        Reverse(seq) == [i \in 1..Len(seq) |-> seq[Len(seq) + 1 - i]]
    IN  {<<InitialEvent(ids)>> \o FoldUpdates(IF rev THEN Reverse(ids) ELSE ids, dd) :
            ids \in decls, rev \in BOOLEAN,
            dd \in {<<Absent, Absent>>, <<"5s", "d1">>}}

\* the form was submitted, LoadingPlaylist is mounted and both streams are
\* open; no event has arrived.  The server writes the run on the stream of
\* LoadingPlaylist frame by frame
InitFold ==
    /\ feed \in FoldScripts /\ emitted = 0 /\ PureIdle
    /\ tasks = <<>> /\ status = "streaming" /\ finalData = "null"
    /\ runs = <<[open |-> TRUE, superseded |-> FALSE,
                 auth |-> [present |-> TRUE, access_token |-> "tok1",
                           expires_in |-> 1, expires_at |-> 1]]>>
    /\ appliedFrom = 0 /\ declared = {}
    /\ sent = Text([i \in 1..Len(feed) |-> Encode(feed[i])]) /\ wire = sent
    /\ lpPhase = "reading" /\ isInitalized = TRUE
    /\ lpEffects = 2 /\ lpTasks = <<>> /\ lpApplied = <<>> /\ lpOrphans = 0
    /\ page = "/loading-playlist" /\ urlCode = "null" /\ loads = 2 /\ now = 0
    /\ verifierLS = "v1"
    /\ back = Push(<<<<"/login/callback", "c1">>>>, <<"/create-playlist", "null">>)
    /\ fwd = <<>> /\ detours = 0
    /\ user = "spotify"
    /\ spotifyAuth = [present |-> TRUE, access_token |-> "tok1", expires_in |-> 1,
                      expires_at |-> 1]
    /\ loggedOutFrom = "none"
    /\ CallbackIdle
    /\ pendingChallenge = Challenge("v1")
    /\ grants = [c \in Codes |->
                   IF c = "c1" THEN [challenge |-> Challenge("v1"), used |-> TRUE]
                   ELSE NoGrant]
    /\ tokens = {[token |-> "tok1", expires |-> 1]}

\* one turn of the while loop of processStream whose read ends between two
\* frames, right behind a frame's blank line: it delivers one or more whole
\* frames
LpReadFrames ==
    /\ lpPhase = "reading"
    /\ \E k \in {n \in 2..Len(wire) : wire[n - 1] = NL /\ wire[n] = NL} : ReadUnits(k)
    /\ UNCHANGED <<sent, lpPhase, isInitalized, lpEffects, lpOrphans>>
    /\ UNCHANGED <<genVars, browserVars, sessionVars, callbackVars, providerVars>>
    /\ UNCHANGED pureVars

NextFold == Deliver \/ LpReadFrames

SpecFold == InitFold /\ [][NextFold]_vars

\* ------------------------------------------------------------------------
\* SpecVerifier: generateCodeVerifier (api.ts), one step of its reduce at a
\* time
\* ------------------------------------------------------------------------
\* the alphabet, indexed from 1
possible ==
    <<"A", "B", "C", "D", "E", "F", "G", "H", "I", "J", "K", "L", "M", "N", "O", "P", "Q", "R", "S", "T", "U", "V", "W", "X", "Y", "Z",
      "a", "b", "c", "d", "e", "f", "g", "h", "i", "j", "k", "l", "m", "n", "o", "p", "q", "r", "s", "t", "u", "v", "w", "x", "y", "z",
      "0", "1", "2", "3", "4", "5", "6", "7", "8", "9">>

\* the values crypto.getRandomValues writes into a Uint8Array
Bytes == 0..255

\* the callback of values.reduce: acc + possible[x % possible.length]
ReduceVerifier(acc, x) == Append(acc, possible[(x % Len(possible)) + 1])

InitVerifier ==
    /\ WireIdle /\ GenIdle /\ SessionIdle /\ CallbackIdle /\ ProviderIdle
    /\ page = "/login" /\ urlCode = "null" /\ loads = 1 /\ now = 0
    /\ verifierLS = "null" /\ back = <<>> /\ fwd = <<>> /\ detours = 0
    /\ codeVerifier = <<>>
    /\ randomFeatures = <<>> /\ songs = <<>> /\ cutoff = DefaultCutoff
    /\ engine = [phase |-> "idle"]

\* the reduce consumes the next random byte
VerifierStep ==
    /\ Len(codeVerifier) < MaxVerifierLen
    /\ \E x \in Bytes : codeVerifier' = ReduceVerifier(codeVerifier, x)
    /\ UNCHANGED <<randomFeatures, songs, cutoff, engine>>
    /\ UNCHANGED <<wireVars, genVars, browserVars, sessionVars, callbackVars,
                   providerVars>>

SpecVerifier == InitVerifier /\ [][VerifierStep]_vars

\* ------------------------------------------------------------------------
\* SpecScore: GreedyAlgorithmVisualization (part_003).  Its numbers are
\* IEEE 754 doubles, none of them negative, infinite or subnormal: a double
\* is 0, [sig |-> <<>>, exp |-> 0], or sig * 2^exp with a significand of 53
\* bits, 2^52 <= sig < 2^53
\* ------------------------------------------------------------------------
\* a natural number of any size is the sequence of its digits to the base
\* 2^14 (16384), lowest first; a + b
BigSum(a, b) ==
    LET At(s, i) == IF i <= Len(s) THEN s[i] ELSE 0
        RECURSIVE From(_, _)
        \* the digits of the sum from the i-th on, carry being carried over
        From(i, carry) ==
            IF i > Len(a) /\ i > Len(b) THEN (IF carry > 0 THEN <<carry>> ELSE <<>>)
            ELSE <<(At(a, i) + At(b, i) + carry) % 16384>>
                     \o From(i + 1, (At(a, i) + At(b, i) + carry) \div 16384)
    IN  From(1, 0)

\* a * b, for an a of up to four digits
BigProduct(a, b) ==
    LET RECURSIVE Column(_, _)
        \* the sum of the products a[j] * b[k + 1 - j] over j >= i
        Column(k, i) ==
            IF i > Len(a) THEN 0
            ELSE (IF k + 1 - i \in 1..Len(b) THEN a[i] * b[k + 1 - i] ELSE 0)
                 + Column(k, i + 1)
        RECURSIVE From(_, _)
        \* the digits of the product from the k-th on, carry being carried over
        From(k, carry) ==
            IF k > Len(a) + Len(b) THEN <<>>
            ELSE <<(Column(k, 1) + carry) % 16384>>
                     \o From(k + 1, (Column(k, 1) + carry) \div 16384)
    IN  From(1, 0)

\* the double nearest to m * 2^e (plus a fraction of its last place when
\* sticky), ties to even: a significand of 53 bits and an exponent
Rounded(m, e, sticky) ==
    LET RECURSIVE Strip(_)
        \* without leading zeros
        Strip(s) == IF s # <<>> /\ s[Len(s)] = 0 THEN Strip(SubSeq(s, 1, Len(s) - 1)) ELSE s
        Bits(x) == CHOOSE b \in 1..14 : 2^(b - 1) <= x /\ x < 2^b
        Pow2(s) == [i \in 1..(s \div 14) |-> 0] \o <<2^(s % 14)>>
        Bit(n, i) == (n[i \div 14 + 1] \div 2^(i % 14)) % 2
        \* the four digits of rest \div 2^r
        Shifted(rest, r) ==
            [i \in 1..4 |->
                rest[i] \div 2^r
                + (IF i < Len(rest) THEN (rest[i + 1] % 2^r) * 2^(14 - r) ELSE 0)]
        \* n \div 2^s rounds up when the bits cut off are more than half of
        \* the last place, or half of it and the last place is odd
        Up(n, s) ==
            /\ Bit(n, s - 1) = 1
            /\ sticky \/ Bit(n, s) = 1 \/ \E i \in 0..(s - 2) : Bit(n, i) = 1
        \* a significand that has reached 2^53 is halved
        Carried(sum, x) ==
            IF sum[4] >= 2048 THEN [sig |-> <<0, 0, 0, 1024>>, exp |-> x + 1]
            ELSE [sig |-> sum, exp |-> x]
        \* n has s bits more than 53
        Cut(n, s) ==
            IF s <= 0 THEN [sig |-> Strip(BigProduct(n, Pow2(-s))), exp |-> e + s]
            ELSE Carried(BigSum(Shifted(SubSeq(n, s \div 14 + 1, Len(n)), s % 14),
                                IF Up(n, s) THEN <<1>> ELSE <<>>),
                         e + s)
        Round(n) ==
            IF n = <<>> THEN [sig |-> <<>>, exp |-> 0]
            ELSE Cut(n, 14 * (Len(n) - 1) + Bits(n[Len(n)]) - 53)
    IN  Round(Strip(m))

\* the double a decimal literal of the value n / d denotes
Num(n, d) ==
    LET RECURSIVE Quotient(_, _)
        \* the digits of n * 2^70 \div d up to the i-th, which is that of
        \* rest * 16384 + (n if i = 6) \div d
        Quotient(i, rest) ==
            IF i = 0 THEN <<>>
            ELSE Quotient(i - 1, (rest * 16384 + (IF i = 6 THEN n ELSE 0)) % d)
                     \o <<(rest * 16384 + (IF i = 6 THEN n ELSE 0)) \div d>>
        RECURSIVE Remainder(_, _)
        \* n * 2^70 % d
        Remainder(i, rest) ==
            IF i = 0 THEN rest
            ELSE Remainder(i - 1, (rest * 16384 + (IF i = 6 THEN n ELSE 0)) % d)
    IN  Rounded(Quotient(6, 0), -70, Remainder(6, 0) # 0)

\* x * y
Times(x, y) == Rounded(BigProduct(x.sig, y.sig), x.exp + y.exp, FALSE)

\* x + y
Plus(x, y) ==
    LET Pow2(s) == [i \in 1..(s \div 14) |-> 0] \o <<2^(s % 14)>>
        \* high.exp >= low.exp
        Sum(high, low) ==
            Rounded(BigSum(BigProduct(high.sig, Pow2(high.exp - low.exp)), low.sig),
                    low.exp, FALSE)
    IN  IF x.sig = <<>> THEN y
        ELSE IF y.sig = <<>> THEN x
        ELSE Sum(IF x.exp >= y.exp THEN x ELSE y, IF x.exp >= y.exp THEN y ELSE x)

\* x < y
Less(x, y) ==
    LET RECURSIVE Below(_)
        Below(i) == i > 0 /\ (x.sig[i] < y.sig[i] \/ (x.sig[i] = y.sig[i] /\ Below(i - 1)))
    IN  IF y.sig = <<>> THEN FALSE
        ELSE IF x.sig = <<>> THEN TRUE
        ELSE x.exp < y.exp \/ (x.exp = y.exp /\ Below(4))

\* the keys of a Features object, in the order Object.entries lists them
FeatureNames ==
    <<"acousticness", "danceability", "energy", "instrumentalness", "liveness",
      "valence", "speechiness", "tempo", "loudness">>

\* the weights literal of generateSongs, keyed by the feature each
\* `<feature>_weight` belongs to
Weights ==
    [acousticness |-> Num(1, 10), danceability |-> Num(15, 100),
     energy |-> Num(18, 100), instrumentalness |-> Num(8, 100),
     liveness |-> Num(7, 100), valence |-> Num(12, 100),
     speechiness |-> Num(5, 100), tempo |-> Num(1, 10), loudness |-> Num(15, 100)]

\* the count generateSongs is called with
SongCount == 15

\* a candidate of the scoring engine with every feature 0 (SpecEngine)
NoFeatures == [k \in {FeatureNames[i] : i \in 1..Len(FeatureNames)} |-> 0]

\* the Features objects drawn for the songs of a pool, nine draws of
\* Math.random() each, 0 where none is named: danceability 0.5 and energy
\* 0.25 (score 12); energy 0.5 and valence 0.25 (score 12);
\* instrumentalness 0.25 (score 2); acousticness 0.2 (score
\* 2.0000000000000004); acousticness 0.7 (score 6.999999999999999)
FeatureVectors ==
    LET Features(drawn) ==
            [k \in {FeatureNames[i] : i \in 1..Len(FeatureNames)} |->
                IF k \in DOMAIN drawn THEN drawn[k] ELSE Num(0, 1)]
    IN  {Features([danceability |-> Num(5, 10), energy |-> Num(25, 100)]),
         Features([energy |-> Num(5, 10), valence |-> Num(25, 100)]),
         Features([instrumentalness |-> Num(25, 100)]),
         Features([acousticness |-> Num(2, 10)]),
         Features([acousticness |-> Num(7, 10)])}

\* the draws of one call generateSongs(15): the draws of every fifth song
\* (song-2, song-7, song-12) vary from pool to pool, the songs between them
\* draw danceability 0.5 and energy 0.25
Draws ==
    LET Pools(vectors, fixed) ==
            {[i \in 1..SongCount |-> IF i % 5 = 3 THEN f[i] ELSE fixed] :
                f \in [{i \in 1..SongCount : i % 5 = 3} -> vectors]}
        Fixed(vectors) == CHOOSE f \in vectors : f.danceability.sig # <<>>
        Drawn(vectors) == Pools(vectors, Fixed(vectors))
    IN  Drawn(FeatureVectors)

\* value * weights[`${key}_weight`] * 100, per feature
WeightedFeatures(features, weights) ==
    [k \in DOMAIN features |-> Times(Times(features[k], weights[k]), Num(100, 1))]

\* Object.values(weightedFeatures).reduce((sum, val) => sum + val, 0)
Score(weighted) ==
    LET RECURSIVE Reduce(_)
        \* the sum after the first n values
        Reduce(n) == IF n = 0 THEN Num(0, 1)
                     ELSE Plus(Reduce(n - 1), weighted[FeatureNames[n]])
    IN  Reduce(Len(FeatureNames))

\* the template literal `song-${i}`: "song-" and the decimal digits of i
SongId(i) ==
    LET RECURSIVE Digits(_)
        Digits(n) == IF n < 10 THEN <<n>> ELSE Digits(n \div 10) \o <<n % 10>>
    IN  <<"song-">> \o Digits(i)

\* the object built for index i
Song(i, features, weights) ==
    LET Built(weighted) ==
            [id |-> SongId(i),
             score |-> Score(weighted),
             weightedFeatures |-> weighted,
             features |-> features]
    IN  Built(WeightedFeatures(features, weights))

\* a sort that puts x in front of the elements of its own score
RECURSIVE InsertBeforeEqual(_, _)
InsertBeforeEqual(sorted, x) ==
    IF sorted = <<>> THEN <<x>>
    ELSE IF ~Less(x.score, Head(sorted).score) THEN <<x>> \o sorted
         ELSE <<Head(sorted)>> \o InsertBeforeEqual(Tail(sorted), x)

\* .sort((a, b) => b.score - a.score): descending by score (the difference
\* of two doubles is positive exactly when the first is the greater); the
\* sort is stable, so x goes behind the elements of its own score
RECURSIVE InsertSorted(_, _)
InsertSorted(sorted, x) ==
    IF sorted = <<>> THEN <<x>>
    ELSE IF Less(Head(sorted).score, x.score) THEN <<x>> \o sorted
         ELSE <<Head(sorted)>> \o InsertSorted(Tail(sorted), x)

\* generateSongs(count), given the features Math.random draws
GenerateSongs(drawn, weights) ==
    LET RECURSIVE SortByScore(_)
        \* the first n songs, sorted
        SortByScore(n) ==
            IF n = 0 THEN <<>>
            ELSE InsertSorted(SortByScore(n - 1), Song(n - 1, drawn[n], weights))
    IN  SortByScore(Len(drawn))

\* the module is loaded (initialSongs = generateSongs(15)) and the
\* visualization is mounted at /test
InitScore ==
    /\ WireIdle /\ GenIdle /\ SessionIdle /\ CallbackIdle /\ ProviderIdle
    /\ page = "/test" /\ urlCode = "null" /\ loads = 1 /\ now = 0
    /\ verifierLS = "null" /\ back = <<>> /\ fwd = <<>> /\ detours = 0
    /\ codeVerifier = <<>>
    /\ randomFeatures \in Draws
    /\ songs = GenerateSongs(randomFeatures, Weights)
    /\ cutoff = DefaultCutoff
    /\ engine = [phase |-> "idle"]

\* onChange of the cutoff slider, which ranges over 0..100
SetCutoff ==
    /\ page = "/test"
    /\ \E v \in {0, 8, 12, 75, 100} : cutoff' = v
    /\ UNCHANGED <<codeVerifier, randomFeatures, songs, engine>>
    /\ UNCHANGED <<wireVars, genVars, browserVars, sessionVars, callbackVars,
                   providerVars>>

SpecScore == InitScore /\ [][SetCutoff]_vars

\* ------------------------------------------------------------------------
\* SpecEngine: the ScoringEngine of the generation job (spec 4.3).  Feature
\* values and weights are written in halves (Unit is 1.0), scores in points
\* ------------------------------------------------------------------------
Unit == 2

\* step 1: tempo (BPM) and loudness (dB) are brought to [0,1] over their
\* fixed domains, 0..250 and -60..0; the other features are normalized
\* already
Normalize(features) ==
    [features EXCEPT
        !.tempo = (@ * Unit) \div 250,
        !.loudness = ((@ + 60) * Unit) \div 60]

\* a contribution that multiplies the candidate's own feature value by the
\* weight
ContributionOfMagnitude(weight, target, candidate) ==
    (weight * candidate * 100) \div (Unit * Unit)

\* step 2: weight_f * (1 - |target_f - candidate_f|) * 100
Contribution(weight, target, candidate) ==
    LET distance == IF target < candidate THEN candidate - target
                    ELSE target - candidate
    IN  (weight * (Unit - distance) * 100) \div (Unit * Unit)

\* the sum of the nine contributions.  The bonus of step 3 is scaled by
\* personalization_weight and cohesion_weight, which are 0 in every set of
\* weights explored
TotalScore(weights, target, candidate) ==
    LET RECURSIVE Total(_)
        \* the sum of the first n contributions
        Total(n) ==
            IF n = 0 THEN 0
            ELSE Total(n - 1)
                 + Contribution(weights[FeatureNames[n]],
                                Normalize(target)[FeatureNames[n]],
                                Normalize(candidate)[FeatureNames[n]])
    IN  Total(Len(FeatureNames))

\* the candidate ids, in their order
CandidateIds == <<"a", "b", "c", "d">>

IdLess(x, y) ==
    \E i, j \in 1..Len(CandidateIds) :
        CandidateIds[i] = x /\ CandidateIds[j] = y /\ i < j

\* an order that looks at the score only
BeforeByScore(x, y) == x.score > y.score

\* step 4: descending by total score, ties by candidate id
Before(x, y) == x.score > y.score \/ (x.score = y.score /\ IdLess(x.id, y.id))

\* ScoringEngine.rank: every candidate of the pool with its total score,
\* sorted
EngineRank(weights, target, candidates) ==
    LET scored == [i \in 1..Len(candidates) |->
                     [id |-> candidates[i].id, features |-> candidates[i].features,
                      score |-> TotalScore(weights, target, candidates[i].features)]]
        RECURSIVE InsertRanked(_, _)
        InsertRanked(sorted, x) ==
            IF sorted = <<>> THEN <<x>>
            ELSE IF Before(x, Head(sorted)) THEN <<x>> \o sorted
                 ELSE <<Head(sorted)>> \o InsertRanked(Tail(sorted), x)
        RECURSIVE SortRanked(_)
        \* the first n candidates, sorted
        SortRanked(n) == IF n = 0 THEN <<>>
                         ELSE InsertRanked(SortRanked(n - 1), scored[n])
    IN  SortRanked(Len(scored))

\* a floor that lets every candidate pass
AcceptAny(candidate, floor) == TRUE

\* step 5, the floor: a candidate below the cutoff is not accepted
Accept(candidate, floor) == candidate.score >= floor

\* a walk that goes on after the requested length is reached
RECURSIVE WalkToEnd(_, _, _, _)
WalkToEnd(list, length, floor, accepted) ==
    IF list = <<>> THEN accepted
    ELSE WalkToEnd(Tail(list), length, floor,
                   IF Accept(Head(list), floor) THEN Append(accepted, Head(list))
                   ELSE accepted)

\* step 5, the walk: down the ranked list, accepting candidates until the
\* requested length is reached
RECURSIVE Walk(_, _, _, _)
Walk(list, length, floor, accepted) ==
    IF list = <<>> \/ Len(accepted) >= length THEN accepted
    ELSE Walk(Tail(list), length, floor,
              IF Accept(Head(list), floor) THEN Append(accepted, Head(list))
              ELSE accepted)

\* target profiles: energy 1 and every other feature 0 (tempo 0 BPM,
\* loudness 0 dB); every feature in the middle of its range
EnergyTarget == [NoFeatures EXCEPT !.energy = Unit]
MidTarget ==
    [k \in DOMAIN NoFeatures |->
        CASE k = "tempo" -> 125 [] k = "loudness" -> -30 [] OTHER -> 1]

\* weights: every weight 0; energy and danceability 1, the others 0
ZeroWeights == NoFeatures
UnitEnergyDance == [NoFeatures EXCEPT !.energy = Unit, !.danceability = Unit]

\* the measured features of a candidate: energy 1 and the others 0;
\* danceability 1 and the others 0; every feature in the middle
EnergyOne == [NoFeatures EXCEPT !.energy = Unit]
DanceOne == [NoFeatures EXCEPT !.danceability = Unit]

\* the engine is handed a target profile, weights (among them every
\* feature weight 0.5), a pool of up to MaxPool candidates of distinct ids
\* in any order, a length and a cutoff
InitEngine ==
    /\ WireIdle /\ GenIdle /\ SessionIdle /\ CallbackIdle /\ ProviderIdle
    /\ page = "/login" /\ urlCode = "null" /\ loads = 1 /\ now = 0
    /\ verifierLS = "null" /\ back = <<>> /\ fwd = <<>> /\ detours = 0
    /\ codeVerifier = <<>>
    /\ randomFeatures = <<>> /\ songs = <<>> /\ cutoff = DefaultCutoff
    /\ \E t \in {EnergyTarget, MidTarget},
          w \in {ZeroWeights, UnitEnergyDance, [k \in DOMAIN NoFeatures |-> 1]},
          p \in {q \in UNION {[1..n -> [id : {CandidateIds[i] : i \in 1..Len(CandidateIds)},
                                         features : {EnergyOne, DanceOne, MidTarget}]] :
                                  n \in 0..MaxPool} :
                    \A i, j \in 1..Len(q) : i # j => q[i].id # q[j].id},
          n \in 0..MaxLength, f \in {0, 100, 150} :
          engine = [phase |-> "given", target |-> t, weights |-> w, pool |-> p,
                    length |-> n, cutoff |-> f, ranked |-> <<>>, selection |-> <<>>]

\* the pool is scored and ranked
RankCandidates ==
    /\ engine.phase = "given"
    /\ engine' = [engine EXCEPT
                    !.phase = "ranked",
                    !.ranked = EngineRank(engine.weights, engine.target, engine.pool)]
    /\ UNCHANGED <<codeVerifier, randomFeatures, songs, cutoff>>
    /\ UNCHANGED <<wireVars, genVars, browserVars, sessionVars, callbackVars,
                   providerVars>>

\* the greedy selection is made from the ranked list
SelectPlaylist ==
    /\ engine.phase = "ranked"
    /\ engine' = [engine EXCEPT
                    !.phase = "selected",
                    !.selection = Walk(engine.ranked, engine.length, engine.cutoff, <<>>)]
    /\ UNCHANGED <<codeVerifier, randomFeatures, songs, cutoff>>
    /\ UNCHANGED <<wireVars, genVars, browserVars, sessionVars, callbackVars,
                   providerVars>>

SpecEngine == InitEngine /\ [][RankCandidates \/ SelectPlaylist]_vars

\* ------------------------------------------------------------------------
\* Properties
\* ------------------------------------------------------------------------
\* the events up to and including the first `final`
RECURSIVE UpToFinal(_)
UpToFinal(events) ==
    IF events = <<>> THEN <<>>
    ELSE IF Head(events).type = "final" THEN <<Head(events)>>
         ELSE <<Head(events)>> \o UpToFinal(Tail(events))

Rank(st) == CASE st = "pending" -> 0 [] st = "running" -> 1 [] st = "completed" -> 2 [] OTHER -> 0

\* C1: every way of cutting the stream into reads decodes and applies the
\* events one read of the whole stream does (checked when the stream has
\* been read to its end).
C1_ChunkingPreservesEvents == lpPhase = "done" => lpApplied = WholeDecode

\* C2: the keys of the TaskMap are ids the `initial` event declared; an
\* update never adds a key.
C2_UpdateNeverCreatesTask == Keys(tasks) \subseteq declared

C4_NothingAfterFinal == lpTasks = ApplyAll(<<>>, UpToFinal(lpApplied))

\* C5: a task that stays in the TaskMap never moves back along
\* pending -> running -> completed.
C5_StatusOnlyForward ==
    [][\A k \in Keys(tasks) \cap Keys(tasks') :
          Rank(Get(tasks', k).status) >= Rank(Get(tasks, k).status)]_vars
\* the session a generation job may be started with: a guest, or a Spotify
\* user whose stored credential has not expired
ValidSession ==
    \/ user = "guest"
    \/ user = "spotify" /\ spotifyAuth.present /\ now < spotifyAuth.expires_at

\* a step in which startGeneration sends its request
RequestSent == Len(runs') > Len(runs)

\* a step in which LoadingPlaylist opens its stream
StreamOpened == lpPhase = "idle" /\ lpPhase' = "fetching"

\* a step in which the code exchange throws, the profile fetch that
\* follows the exchange comes back empty, or the profile fetch settles for
\* an exchange the provider answered with an error object; of the mounted
\* callback page or of one that is off the page
LoginFailed ==
    \/ TokenResponse /\ cbStatus' = "error"
    \/ ProfileResponse /\ (profileReq'.outcome = "null" \/ profileReq.res.error # Absent)
    \/ \E i \in 1..MaxOrphanLogins : OrphanTokenSettles(i, "reject")
    \/ \E i \in 1..MaxOrphanLogins :
          \/ OrphanProfileSettles(i, "null")
          \/ /\ i <= Len(orphanLogins)
             /\ orphanLogins[i].profileReq.res.error # Absent
             /\ OrphanProfileResponse /\ orphanLogins' = Remove(orphanLogins, i)

\* C6: the credential a generation request carries has not expired when the
\* request is sent.
C6_ExpiredNeverAttached ==
    [][RequestSent =>
          LET auth == runs'[Len(runs')].auth
          IN  auth.present => now < auth.expires_at]_vars

\* C7: once the code exchange of the callback page has settled, no verifier
\* is left in localStorage.
C7_VerifierDiscarded ==
    (page = "/login/callback" /\ isLoggingIn /\ ~tokenReq.active) => verifierLS = "null"

\* C8: the callback page never shows "welcome" for an exchange the provider
\* answered with an error object (wrong or missing verifier, used code).
C8_RejectedNeverWelcome ==
    (page = "/login/callback" /\ profileReq.res.error # Absent) => cbStatus # "welcome"

\* C9: a failed code exchange or profile fetch leaves user and credential
\* as they were, and a stored credential always carries a token the
\* provider issued.
C9_FailedLoginKeepsSession ==
    [][/\ LoginFailed => (user' = user /\ spotifyAuth' = spotifyAuth)
       /\ spotifyAuth'.present =>
             \E t \in tokens' : t.token = spotifyAuth'.access_token]_vars

\* C9 witness: the provider rejected the exchange of a callback page shown
\* again, the profile fetch came back empty, and the Spotify session that
\* was there is still there.
C9_Witness ==
    /\ page = "/login/callback"
    /\ profileReq.res.error = "invalid_grant"
    /\ profileReq.outcome = "null"
    /\ user = "spotify"
    /\ spotifyAuth.present /\ spotifyAuth.access_token = TokenOf(urlCode)

\* C10: a generation request or stream is opened only while the session is
\* valid.
C10_GenerationNeedsSession ==
    [][(RequestSent \/ StreamOpened) => ValidSession]_vars

\* C11: a guest session holds no Spotify credential.
C11_GuestHoldsNoCredential == user = "guest" => ~spotifyAuth.present

\* C12: when the stream of LoadingPlaylist fails at the network level (no
\* response, no body, or the connection is reset while reading) the run's
\* status is `error`.
C12_StreamFailureIsError == lpPhase = "failed" => status = "error"

\* the frames of a text, and the text's frames other than the corrupted one
Frames(text) == SubSeq(Split(text), 1, Len(Split(text)) - 1)
Intact(text) == SelectSeq(Frames(text), LAMBDA f : f # CorruptFrame)

\* exactly one frame of the text is corrupted, and it is neither the first
\* nor the last
OneCorruptBetween(text) ==
    LET fs == Frames(text)
    IN  \E i \in 2..(Len(fs) - 1) :
            \A j \in 1..Len(fs) : (fs[j] = CorruptFrame) <=> (j = i)

\* s is an initial part of t
IsPrefix(s, t) == Len(s) <= Len(t) /\ s = SubSeq(t, 1, Len(s))

\* C13: a stream with one corrupted frame between valid frames, read to its
\* end, leaves the TaskMap the same stream without the corrupted frame
\* produces.
C13_CorruptFrameSkipped ==
    (lpPhase = "done" /\ OneCorruptBetween(sent))
        => lpTasks = ApplyAll(<<>>, Decoded(Intact(sent)))

\* C14: the events applied so far are always the first events the server
\* emitted, in its order, and all of them once the stream has been read to
\* its end: nothing is reordered, merged or dropped.
C14_AppliedInEmissionOrder ==
    [][/\ IsPrefix(lpApplied', WholeDecode)
       /\ lpPhase' = "done" => Len(lpApplied') = Len(WholeDecode)]_vars

\* the TaskMap holds exactly the ids the `initial` event of the run fed
\* declared, each once and each completed
AllCompleted(obj) ==
    LET ids == {feed[1].tasks[i] : i \in 1..Len(feed[1].tasks)}
    IN  /\ Keys(obj) = ids
        /\ Len(obj) = Cardinality(ids)
        /\ \A i \in 1..Len(obj) : obj[i].val.status = "completed"

\* C15: after an `initial` event and a `running` then a `completed` update
\* for each declared task, the TaskMap of either handler has exactly the
\* declared keys, all completed.
C15_AllDeclaredCompleted ==
    /\ emitted = Len(feed) => AllCompleted(tasks)
    /\ lpApplied = feed => AllCompleted(lpTasks)

\* C15 witness: a run of two distinct tasks has been applied to its end by
\* both handlers and the completed updates carried a payload.
C15_Witness ==
    /\ feed # <<>> /\ emitted = Len(feed) /\ lpApplied = feed
    /\ Len(feed[1].tasks) = 2 /\ feed[1].tasks[1] # feed[1].tasks[2]
    /\ Len(tasks) = 2 /\ Len(lpTasks) = 2
    /\ tasks[1].val.additionalData = "d1"

\* C16: within a run, once an `initial` event has been applied, no later
\* event removes a key from the TaskMap.
C16_NoTaskRemoved ==
    [][(declared # {} /\ ~RequestSent) => Keys(tasks) \subseteq Keys(tasks')]_vars

\* C17: once the `initial` event has been applied, the TaskMap of either
\* handler enumerates one entry per declared task, in declaration order.
C17_DeclarationOrderKept ==
    /\ (feed # <<>> /\ emitted >= 1) => KeyOrder(tasks) = feed[1].tasks
    /\ (feed # <<>> /\ lpApplied # <<>>) => KeyOrder(lpTasks) = feed[1].tasks

\* C18: at most one read loop of LoadingPlaylist is running at any time,
\* however often the page is mounted for a run.
C18_AtMostOneReadLoop == lpOrphans + (IF LpActive THEN 1 ELSE 0) <= 1

\* C19: the verifier in localStorage is the one whose challenge the latest
\* authorization URL carried, whichever call stored it; a code exchange
\* sends that verifier; and a code is redeemed only if it was granted for
\* that URL: an attempt begun earlier cannot be completed.
C19_LatestVerifierOnly ==
    [][/\ pendingChallenge' # <<>> => pendingChallenge' = Challenge(verifierLS')
       /\ (tokenReq'.active /\ ~tokenReq.active) =>
             /\ tokenReq'.code_verifier = verifierLS
             /\ pendingChallenge # <<>> =>
                   Challenge(tokenReq'.code_verifier) = pendingChallenge
       /\ \A c \in Codes :
             (grants'[c].used /\ ~grants[c].used) => grants[c].challenge = pendingChallenge]_vars

\* C19 witness: a code was granted for a first login and, before it was
\* redeemed, a second login stored its verifier; the callback page was then
\* shown with the code of the first login, sent it with the verifier stored
\* and the provider refused the exchange.
C19_Witness ==
    /\ page = "/login/callback"
    /\ tokenReq.active /\ tokenReq.served
    /\ tokenReq.res.error = "invalid_grant"
    /\ tokenReq.code = urlCode
    /\ tokenReq.code_verifier = verifierLS
    /\ pendingChallenge = Challenge(verifierLS)
    /\ grants[urlCode] # NoGrant /\ ~grants[urlCode].used
    /\ grants[urlCode].challenge # pendingChallenge

\* C20: a logOut step leaves no user and no credential whatever the session
\* was, and a logOut that follows a logOut changes nothing; applying logOut
\* to its own result gives that result.
C20_LogOutClearsIdempotent ==
    [][LogOut =>
          /\ user' = "null" /\ spotifyAuth' = NoAuth /\ page' = "/login"
          /\ LogOutAuth(spotifyAuth') = spotifyAuth'
          /\ loggedOutFrom # "none" =>
                (user' = user /\ spotifyAuth' = spotifyAuth)]_vars

\* C20 witness: logOut was called on a Spotify session holding a
\* credential, and nothing is held now.
C20_Witness ==
    /\ loggedOutFrom = "spotify"
    /\ user = "null" /\ spotifyAuth = NoAuth /\ page = "/login"
    /\ tokens # {}

\* an update merged into the TaskMap obj gave new: the order of the keys and
\* every other record are as before; of the task's own record only status,
\* duration and additionalData may differ, and additionalData only on a
\* completed update that carries data
UpdateFrame(obj, new, chunk) ==
    LET k == chunk.task_id
        old == Get(obj, k)
        upd == Get(new, k)
    IN  /\ KeyOrder(new) = KeyOrder(obj)
        /\ \A i \in 1..Len(obj) : obj[i].key # k => new[i] = obj[i]
        /\ upd.id = old.id /\ upd.label = old.label
        /\ upd.description = old.description
        /\ upd.status = chunk.status
        /\ upd.duration = (IF chunk.duration # Absent THEN chunk.duration
                           ELSE old.duration)
        /\ upd.additionalData =
              (IF chunk.status = "completed" /\ chunk.data # Absent
               THEN chunk.data ELSE old.additionalData)

\* C27: whatever update for a task of the TaskMap either handler is given
\* next, it changes only that task's status, duration and result, and
\* stores the data of a completed update only.
C27_UpdateTouchesOnlyItsTask ==
    \A id \in Keys(tasks), st \in {"running", "completed"},
       dur \in {Absent, "5s"}, data \in {Absent, "d1"} :
        LET chunk == UpdateEvent(id, st, dur, data)
        IN  /\ UpdateFrame(tasks, HandleTasks(tasks, chunk), chunk)
            /\ UpdateFrame(tasks, SwitchTasks(tasks, chunk), chunk)

\* C27 witness: two tasks were declared, one has been completed with a
\* duration and a payload, the other is as declared.
C27_Witness ==
    /\ KeyOrder(tasks) = <<"t1", "t2">>
    /\ tasks[1].val = [Declared("t1") EXCEPT !.status = "completed",
                          !.duration = "5s", !.additionalData = "d1"]
    /\ tasks[2].val = Declared("t2")

C30_LogOutBeatsPendingLogin ==
    [][(loggedOutFrom # "none" /\ (ProfileResponse \/ OrphanProfileResponse))
          => (user' = "null" /\ spotifyAuth' = NoAuth)]_vars

\* C28: one mount of the callback page calls handleAuthCode at most once,
\* however many times its mount effect runs.
C28_CodeExchangedOncePerMount == cbExchanges <= 1

\* C28 witness: the mount effect of a callback page carrying a code has run
\* twice and the code was exchanged.
C28_Witness ==
    /\ page = "/login/callback" /\ urlCode # "null"
    /\ cbEffects = 2 /\ cbExchanges = 1

\* C21: every character of the alphabet is the image of as many byte values
\* as each character the verifier holds.
C21_VerifierCharsUniform ==
    LET ByteCount(c) == Cardinality({x \in Bytes : ReduceVerifier(<<>>, x) = <<c>>})
    IN  \A i \in 1..Len(codeVerifier) : \A k \in 1..Len(possible) :
            ByteCount(possible[k]) = ByteCount(codeVerifier[i])

\* the index a song id carries: the number `song-${i}` was built from
RECURSIVE DigitsValue(_)
DigitsValue(digits) ==
    IF digits = <<>> THEN 0
    ELSE DigitsValue(SubSeq(digits, 1, Len(digits) - 1)) * 10 + digits[Len(digits)]

IdIndex(id) == DigitsValue(Tail(id))

\* C22: the ranked list is in descending order of score, songs of equal
\* score are in the order of their ids (the order of the indices the ids
\* carry), and it is the list generateSongs computes from the same draws.
C22_RankedByScoreThenId ==
    /\ \A i, j \in 1..Len(songs) :
          i < j => \/ Less(songs[j].score, songs[i].score)
                   \/ /\ songs[i].score = songs[j].score
                      /\ IdIndex(songs[i].id) < IdIndex(songs[j].id)
    /\ Len(songs) = SongCount
    /\ \A n \in 0..(SongCount - 1) : \E i \in 1..Len(songs) : songs[i].id = SongId(n)

\* C22 witness: song-2 and song-10 come out with the same score from
\* different features, song-2 in front, and a song of a lower score that was
\* built before song-10 stands behind both.
C22_Witness ==
    \E i, j, k \in 1..Len(songs) :
        /\ i < j /\ j < k
        /\ songs[i].id = SongId(2) /\ songs[j].id = SongId(10)
        /\ songs[i].score = songs[j].score
        /\ songs[i].features # songs[j].features
        /\ Less(songs[k].score, songs[j].score)
        /\ IdIndex(songs[k].id) < IdIndex(songs[j].id)

\* the total score the engine's contract gives a candidate of the pool
PoolScore(p) == TotalScore(engine.weights, engine.target, p.features)

Eligible == {i \in 1..Len(engine.pool) : PoolScore(engine.pool[i]) >= engine.cutoff}

====
